---------------------------- MODULE Spec2Model ----------------------------
(***************************************************************************)
(* Model of the accessibility-audit server (src/server.js, first variant, *)
(* lines 1-355): the scorer, the issue normalizer and the                 *)
(* POST /api/a11y-check handler.                                          *)
(*                                                                         *)
(* The specifications share the variables below:                          *)
(*   SpecScore  calculateDetailedScore applied to bounded counts          *)
(*   SpecNorm   processAndCleanIssues and generateSummary applied to      *)
(*              bounded raw issue lists                                   *)
(*   SpecSummary  the same on lists of many critical codes                *)
(*   SpecRepeat   processAndCleanIssues called twice on one list          *)
(*   Spec       the request handler, two requests in flight               *)
(*   LiveSpec   Spec with every engine call settling eventually           *)
(*   SpecAudit  the handler, one request with longer issue lists          *)
(*   SpecVariant  the handler of the rate-limited variant (lines 1201 on) *)
(*   SpecWidget   the loading overlay of the widget (src/public/embed.js) *)
(* A specification leaves the variables of the others untouched.          *)
(*                                                                         *)
(* JavaScript strings are TLA+ strings.  Where the code inspects a string  *)
(* (trim, includes, split, replace, new URL) the string is looked up in   *)
(* the table Chars, which spells it as a sequence of one-character        *)
(* strings, and the result is turned back into a string by Str.           *)
(* Non-ASCII characters of the source's literals are transliterated       *)
(* (ae for a-umlaut, - for the en dash, ...).                             *)
(***************************************************************************)
EXTENDS Integers, Sequences, FiniteSets, TLC

(* ------------------------------- bounds ------------------------------- *)

\* Largest number of raw issues of one type handed to the scorer.
MaxCount == 16

\* Longest raw issue list handed to the normalizer.
MaxIssues == 4

\* Most clicks on the widget's button in one behaviour.
MaxClicks == 3

\* Most ticks of one progress loop of the widget.
MaxTicks == 2

VARIABLES
    counts,      \* SpecScore: the {errors, warnings, notices} argument
    scoring,     \* SpecScore: the ScoreResult returned, or NoValue
    scorePc,     \* SpecScore: "input" before the call, "done" after
    rawIssues,   \* SpecNorm: the raw issue list given to the normalizer
    processed,   \* SpecNorm: what processAndCleanIssues did, or NoValue
    normPc,      \* SpecNorm: "input" before the call, "done" after ("again"
                 \* after the second call of SpecRepeat)
    summary,     \* SpecNorm: what generateSummary returned, or NoValue
    processedAgain, \* SpecRepeat: what a second call on rawIssues did, or NoValue
    inheritedCount, \* the count property of each value object literals inherit
    wcagDe,      \* the dictionary loaded from wcag-de.json at start-up
    req,         \* Spec: each request's handler invocation
    now,         \* Spec: Date.now(), one tick per handler step
    widget       \* SpecWidget: the page state the embedded widget keeps

scoreVars == <<counts, scoring, scorePc>>

normVars == <<rawIssues, processed, normPc, summary, processedAgain>>

handlerVars == <<req, now>>

vars == <<scoreVars, normVars, wcagDe, inheritedCount, handlerVars, widget>>

\* The requests whose handling may overlap.
Requests == {"r1", "r2"}

NoValue == [none |-> TRUE]

Min(a, b) == IF a <= b THEN a ELSE b

Max(a, b) == IF a >= b THEN a ELSE b

\* The other specifications keep the normalizer's variables at these values.
NormIdle ==
    /\ rawIssues = <<>>
    /\ processed = NoValue
    /\ normPc = "idle"
    /\ summary = NoValue
    /\ processedAgain = NoValue

\* A handler invocation that has not started.
IdleRequest ==
    [pc |-> "idle", body |-> "", url |-> "", startTime |-> 0,
     engineCalls |-> <<>>, engine |-> NoValue, responses |-> <<>>,
     unhandled |-> FALSE]

\* The other specifications keep the handler's variables at these values.
HandlerIdle ==
    /\ req = [r \in Requests |-> IdleRequest]
    /\ now = 0

\* embed.js 25-72, 1120: the widget after init().  The overlay exists and is
\* not displayed, the progress bar shows 0 %, no interval and no timeout is
\* set, the button is enabled, no audit is awaited.
WidgetLoaded ==
    [display |-> "none", overflow |-> "", progress |-> 0,
     progressTimer |-> FALSE, pct |-> 0, ticks |-> 0,
     disabled |-> FALSE, awaiting |-> 0, hideTimeouts |-> 0,
     clicks |-> 0, status |-> "", statusColor |-> "#6b7280", results |-> ""]

\* server.js 12: wcagDe when wcag-de.json is missing or unreadable.
NoDictionary == [key \in {} |-> ""]

\* Property names every object literal inherits from Object.prototype
\* (Object.getOwnPropertyNames(Object.prototype)): for these grouped[key] is
\* truthy before any group has been stored (server.js 195, 198).
ObjectPrototypeKeys ==
    {"constructor", "toString", "valueOf", "hasOwnProperty", "isPrototypeOf",
     "propertyIsEnumerable", "toLocaleString", "__proto__",
     "__defineGetter__", "__defineSetter__", "__lookupGetter__",
     "__lookupSetter__"}

\* At start-up none of the inherited values has a count property.
NoInheritedCount == [key \in ObjectPrototypeKeys |-> "undefined"]

(* ------------------------------- scorer ------------------------------- *)

\* getScoreAssessment with every threshold compared by > instead of >=.
getScoreAssessmentStrict(score) ==
    IF score > 90 THEN "Hervorragend - Kleine Optimierungen moeglich"
    ELSE IF score > 80 THEN "Gut - Wenige Verbesserungen noetig"
    ELSE IF score > 70 THEN "Befriedigend - Mehrere Probleme beheben"
    ELSE IF score > 60 THEN "Ausreichend - Wichtige Maengel vorhanden"
    ELSE IF score > 40 THEN "Mangelhaft - Viele kritische Probleme"
    ELSE "Kritisch - Sofortiger Handlungsbedarf!"

\* server.js 261-268
getScoreAssessment(score) ==
    IF score >= 90 THEN "Hervorragend - Kleine Optimierungen moeglich"
    ELSE IF score >= 80 THEN "Gut - Wenige Verbesserungen noetig"
    ELSE IF score >= 70 THEN "Befriedigend - Mehrere Probleme beheben"
    ELSE IF score >= 60 THEN "Ausreichend - Wichtige Maengel vorhanden"
    ELSE IF score >= 40 THEN "Mangelhaft - Viele kritische Probleme"
    ELSE "Kritisch - Sofortiger Handlungsbedarf!"

\* GradeOf with every threshold compared by > instead of >=.
GradeOfStrict(score) ==
    IF score > 95 THEN [grade |-> "A+", gradeColor |-> "#059669"]
    ELSE IF score > 90 THEN [grade |-> "A", gradeColor |-> "#10b981"]
    ELSE IF score > 80 THEN [grade |-> "B", gradeColor |-> "#84cc16"]
    ELSE IF score > 70 THEN [grade |-> "C", gradeColor |-> "#eab308"]
    ELSE IF score > 60 THEN [grade |-> "D", gradeColor |-> "#f59e0b"]
    ELSE [grade |-> "F", gradeColor |-> "#dc2626"]

\* server.js 247-253: the grade and its colour, first matching threshold.
GradeOf(score) ==
    IF score >= 95 THEN [grade |-> "A+", gradeColor |-> "#059669"]
    ELSE IF score >= 90 THEN [grade |-> "A", gradeColor |-> "#10b981"]
    ELSE IF score >= 80 THEN [grade |-> "B", gradeColor |-> "#84cc16"]
    ELSE IF score >= 70 THEN [grade |-> "C", gradeColor |-> "#eab308"]
    ELSE IF score >= 60 THEN [grade |-> "D", gradeColor |-> "#f59e0b"]
    ELSE [grade |-> "F", gradeColor |-> "#dc2626"]

\* Penalties with the error penalty left uncapped.
PenaltiesErrorUncapped(c) ==
    LET errorPenalty == c.errors * 10
        warningPenalty == Min(25, c.warnings * 3)
        noticePenalty == Min(15, c.notices * 1)
    IN  [errorPenalty |-> errorPenalty,
         warningPenalty |-> warningPenalty,
         noticePenalty |-> noticePenalty,
         totalPenalty |-> errorPenalty + warningPenalty + noticePenalty]

\* Penalties with the notice penalty capped at 25 like the warning penalty.
PenaltiesNoticeCap25(c) ==
    LET errorPenalty == Min(60, c.errors * 10)
        warningPenalty == Min(25, c.warnings * 3)
        noticePenalty == Min(25, c.notices * 1)
    IN  [errorPenalty |-> errorPenalty,
         warningPenalty |-> warningPenalty,
         noticePenalty |-> noticePenalty,
         totalPenalty |-> errorPenalty + warningPenalty + noticePenalty]

\* server.js 241-244: the three capped penalties and their sum.
Penalties(c) ==
    LET errorPenalty == Min(60, c.errors * 10)
        warningPenalty == Min(25, c.warnings * 3)
        noticePenalty == Min(15, c.notices * 1)
    IN  [errorPenalty |-> errorPenalty,
         warningPenalty |-> warningPenalty,
         noticePenalty |-> noticePenalty,
         totalPenalty |-> errorPenalty + warningPenalty + noticePenalty]

\* server.js 240-260
calculateDetailedScore(c) ==
    LET breakdown == Penalties(c)
        score == Max(0, 100 - breakdown.totalPenalty)
        g == GradeOf(score)
    IN  [score |-> score,
         grade |-> g.grade,
         gradeColor |-> g.gradeColor,
         breakdown |-> breakdown,
         assessment |-> getScoreAssessment(score)]

CountsDomain ==
    [errors : 0..MaxCount, warnings : 0..MaxCount, notices : 0..MaxCount]

ScoreIdle ==
    /\ counts = NoValue
    /\ scoring = NoValue
    /\ scorePc = "idle"

ScoreInit ==
    /\ counts \in CountsDomain
    /\ scoring = NoValue
    /\ scorePc = "input"
    /\ NormIdle
    /\ HandlerIdle
    /\ widget = WidgetLoaded
    /\ wcagDe = NoDictionary
    /\ inheritedCount = NoInheritedCount

\* One call of calculateDetailedScore on the chosen counts.
Score ==
    /\ scorePc = "input"
    /\ scoring' = calculateDetailedScore(counts)
    /\ scorePc' = "done"
    /\ UNCHANGED <<counts, normVars, wcagDe, widget, inheritedCount, handlerVars>>

ScoreNext == Score

SpecScore == ScoreInit /\ [][ScoreNext]_vars

(* ------------------------------ strings ------------------------------- *)

\* The strings the code inspects character by character, spelled out.
Chars ==
    "" :> <<>> @@
    "unknown" :> <<"u", "n", "k", "n", "o", "w", "n">> @@
    "constructor" :> <<"c", "o", "n", "s", "t", "r", "u", "c", "t", "o", "r">> @@
    "WCAG2AA.Principle2.Guideline2_4.2_4_2.H25.2" :>
        <<"W", "C", "A", "G", "2", "A", "A", ".", "P", "r", "i", "n", "c", "i", "p", "l",
          "e", "2", ".", "G", "u", "i", "d", "e", "l", "i", "n", "e", "2", "_", "4", ".",
          "2", "_", "4", "_", "2", ".", "H", "2", "5", ".", "2">> @@
    "WCAG2AA.Principle1.Guideline1_4.1_4_3.G18.Fail" :>
        <<"W", "C", "A", "G", "2", "A", "A", ".", "P", "r", "i", "n", "c", "i", "p", "l",
          "e", "1", ".", "G", "u", "i", "d", "e", "l", "i", "n", "e", "1", "_", "4", ".",
          "1", "_", "4", "_", "3", ".", "G", "1", "8", ".", "F", "a", "i", "l">> @@
    "WCAG2AA.Principle2.Guideline2_4.2_4_7.G149" :>
        <<"W", "C", "A", "G", "2", "A", "A", ".", "P", "r", "i", "n", "c", "i", "p", "l",
          "e", "2", ".", "G", "u", "i", "d", "e", "l", "i", "n", "e", "2", "_", "4", ".",
          "2", "_", "4", "_", "7", ".", "G", "1", "4", "9">> @@
    "WCAG2AA.Principle1.Guideline1_3.1_3_1.H49.B" :>
        <<"W", "C", "A", "G", "2", "A", "A", ".", "P", "r", "i", "n", "c", "i", "p", "l",
          "e", "1", ".", "G", "u", "i", "d", "e", "l", "i", "n", "e", "1", "_", "3", ".",
          "1", "_", "3", "_", "1", ".", "H", "4", "9", ".", "B">> @@
    "H25.2" :> <<"H", "2", "5", ".", "2">> @@
    "G18.Fail" :> <<"G", "1", "8", ".", "F", "a", "i", "l">> @@
    "F77" :> <<"F", "7", "7">> @@
    "H32.2" :> <<"H", "3", "2", ".", "2">> @@
    "2_4_4.H77" :> <<"2", "_", "4", "_", "4", ".", "H", "7", "7">> @@
    "3_3_1" :> <<"3", "_", "3", "_", "1">> @@
    "3_3_2" :> <<"3", "_", "3", "_", "2">> @@
    "4_1_1" :> <<"4", "_", "1", "_", "1">> @@
    "H67.1" :> <<"H", "6", "7", ".", "1">> @@
    "G149" :> <<"G", "1", "4", "9">> @@
    "G141" :> <<"G", "1", "4", "1">> @@
    "1_4_4" :> <<"1", "_", "4", "_", "4">> @@
    "2_4_1" :> <<"2", "_", "4", "_", "1">> @@
    "2_4_7" :> <<"2", "_", "4", "_", "7">> @@
    "WCAG2AA." :> <<"W", "C", "A", "G", "2", "A", "A", ".">> @@
    "Principle" :> <<"P", "r", "i", "n", "c", "i", "p", "l", "e">> @@
    "Guideline" :> <<"G", "u", "i", "d", "e", "l", "i", "n", "e">> @@
    "H49.B" :> <<"H", "4", "9", ".", "B">> @@
    "Unbekanntes Problem" :>
        <<"U", "n", "b", "e", "k", "a", "n", "n", "t", "e", "s", " ", "P", "r", "o", "b",
          "l", "e", "m">> @@
    "Seitentitel fehlt. Bitte ein title-Element setzen." :>
        <<"S", "e", "i", "t", "e", "n", "t", "i", "t", "e", "l", " ", "f", "e", "h", "l",
          "t", ".", " ", "B", "i", "t", "t", "e", " ", "e", "i", "n", " ", "t", "i", "t",
          "l", "e", "-", "E", "l", "e", "m", "e", "n", "t", " ", "s", "e", "t", "z", "e",
          "n", ".">> @@
    "Kurz" :> <<"K", "u", "r", "z">> @@
    "Veraltetes Markup. Bitte ersetzen." :>
        <<"V", "e", "r", "a", "l", "t", "e", "t", "e", "s", " ", "M", "a", "r", "k", "u",
          "p", ".", " ", "B", "i", "t", "t", "e", " ", "e", "r", "s", "e", "t", "z", "e",
          "n", ".">> @@
    "Veraltetes Markup" :>
        <<"V", "e", "r", "a", "l", "t", "e", "t", "e", "s", " ", "M", "a", "r", "k", "u",
          "p">> @@
    "m1" :> <<"m", "1">> @@
    "\f m1\t" :> <<"\f", " ", "m", "1", "\t">> @@
    "http://a b/" :> <<"h", "t", "t", "p", ":", "/", "/", "a", " ", "b", "/">> @@
    "HTTP://A.de\\a/../x" :>
        <<"H", "T", "T", "P", ":", "/", "/", "A", ".", "d", "e", "\\", "a", "/", ".", ".",
          "/", "x">> @@
    "http://a.de/a/.b/.." :>
        <<"h", "t", "t", "p", ":", "/", "/", "a", ".", "d", "e", "/", "a", "/", ".", "b", "/", ".", ".">> @@
    "https://a.de/a/.b/.." :>
        <<"h", "t", "t", "p", "s", ":", "/", "/", "a", ".", "d", "e", "/", "a", "/", ".", "b", "/", ".", ".">> @@
    "m2" :> <<"m", "2">> @@
    " " :> <<" ">> @@
    "example" :> <<"e", "x", "a", "m", "p", "l", "e">> @@
    "http://" :> <<"h", "t", "t", "p", ":", "/", "/">> @@
    "ftp://a.de/" :> <<"f", "t", "p", ":", "/", "/", "a", ".", "d", "e", "/">> @@
    "https://a.de/" :> <<"h", "t", "t", "p", "s", ":", "/", "/", "a", ".", "d", "e", "/">> @@
    "HTTP://A.de/x" :> <<"H", "T", "T", "P", ":", "/", "/", "A", ".", "d", "e", "/", "x">> @@
    "https://a.de/x" :> <<"h", "t", "t", "p", "s", ":", "/", "/", "a", ".", "d", "e", "/", "x">> @@
    "http" :> <<"h", "t", "t", "p">> @@
    "https" :> <<"h", "t", "t", "p", "s">> @@
    "ftp" :> <<"f", "t", "p">> @@
    "ws" :> <<"w", "s">> @@
    "wss" :> <<"w", "s", "s">> @@
    "http:" :> <<"h", "t", "t", "p", ":">> @@
    "https:" :> <<"h", "t", "t", "p", "s", ":">> @@
    "ftp:" :> <<"f", "t", "p", ":">> @@
    "WCAG2AA.Principle4.Guideline4_1.4_1_1.F77" :>
        <<"W", "C", "A", "G", "2", "A", "A", ".", "P", "r", "i", "n", "c", "i", "p", "l",
          "e", "4", ".", "G", "u", "i", "d", "e", "l", "i", "n", "e", "4", "_", "1", ".",
          "4", "_", "1", "_", "1", ".", "F", "7", "7">> @@
    "WCAG2AA.Principle3.Guideline3_2.3_2_2.H32.2" :>
        <<"W", "C", "A", "G", "2", "A", "A", ".", "P", "r", "i", "n", "c", "i", "p", "l",
          "e", "3", ".", "G", "u", "i", "d", "e", "l", "i", "n", "e", "3", "_", "2", ".",
          "3", "_", "2", "_", "2", ".", "H", "3", "2", ".", "2">> @@
    "WCAG2AA.Principle4.Guideline4_1.4_1_1.G149" :>
        <<"W", "C", "A", "G", "2", "A", "A", ".", "P", "r", "i", "n", "c", "i", "p", "l",
          "e", "4", ".", "G", "u", "i", "d", "e", "l", "i", "n", "e", "4", "_", "1", ".",
          "4", "_", "1", "_", "1", ".", "G", "1", "4", "9">>

\* The string a spelling stands for.
Str(chars) == CHOOSE s \in DOMAIN Chars : Chars[s] = chars

\* String.prototype.includes on spelled strings.
Includes(s, p) ==
    \E i \in 0..(Len(s) - Len(p)) : SubSeq(s, i + 1, i + Len(p)) = p

Digits == {"0", "1", "2", "3", "4", "5", "6", "7", "8", "9"}

\* The code points String.prototype.trim removes: the WhiteSpace and
\* LineTerminator productions of ECMAScript.  U+000B is written as the
\* character itself; a code point beyond U+007F, which no string of a module
\* can hold apart from the others, is spelled by its name.
WhiteSpace ==
    {"\t", "\n", "", "\f", "\r", " ", "U+00A0",
     "U+1680", "U+2000", "U+2001", "U+2002", "U+2003", "U+2004",
     "U+2005", "U+2006", "U+2007", "U+2008", "U+2009", "U+200A",
     "U+2028", "U+2029", "U+202F", "U+205F", "U+3000", "U+FEFF"}

IsWhiteSpace(ch) == ch \in WhiteSpace

RECURSIVE TrimStart(_)
TrimStart(s) ==
    IF s # <<>> /\ IsWhiteSpace(Head(s)) THEN TrimStart(Tail(s)) ELSE s

RECURSIVE TrimEnd(_)
TrimEnd(s) ==
    IF s # <<>> /\ IsWhiteSpace(s[Len(s)])
    THEN TrimEnd(SubSeq(s, 1, Len(s) - 1))
    ELSE s

\* String.prototype.trim on spelled strings.
Trim(s) == TrimEnd(TrimStart(s))

(* -------------------------------- URLs -------------------------------- *)

\* ASCII upper case to lower case.
LowerOf ==
    "A" :> "a" @@ "B" :> "b" @@ "C" :> "c" @@ "D" :> "d" @@ "E" :> "e" @@ "F" :> "f" @@
    "G" :> "g" @@ "H" :> "h" @@ "I" :> "i" @@ "J" :> "j" @@ "K" :> "k" @@ "L" :> "l" @@
    "M" :> "m" @@ "N" :> "n" @@ "O" :> "o" @@ "P" :> "p" @@ "Q" :> "q" @@ "R" :> "r" @@
    "S" :> "s" @@ "T" :> "t" @@ "U" :> "u" @@ "V" :> "v" @@ "W" :> "w" @@ "X" :> "x" @@
    "Y" :> "y" @@ "Z" :> "z"

Letters == DOMAIN LowerOf \cup {LowerOf[c] : c \in DOMAIN LowerOf}

ToLower(s) ==
    [i \in 1..Len(s) |-> IF s[i] \in DOMAIN LowerOf THEN LowerOf[s[i]] ELSE s[i]]

\* Position of the first element of s that lies in stops, Len(s) + 1 if none.
FirstOf(s, stops) ==
    IF \E i \in 1..Len(s) : s[i] \in stops
    THEN CHOOSE i \in 1..Len(s) : s[i] \in stops /\ \A j \in 1..(i - 1) : s[j] \notin stops
    ELSE Len(s) + 1

\* The slashes and backslashes after a special scheme's colon are skipped.
RECURSIVE SkipSlashes(_)
SkipSlashes(s) ==
    IF s # <<>> /\ Head(s) \in {"/", "\\"} THEN SkipSlashes(Tail(s)) ELSE s

\* Schemes the URL parser treats as special (file, parsed differently, left out).
SpecialSchemes == {Chars["http"], Chars["https"], Chars["ftp"], Chars["ws"], Chars["wss"]}

\* C0 control or space: what the URL parser strips from both ends of its
\* input.  U+0001 to U+001F are written as the characters themselves.
C0ControlOrSpace ==
    {"", "", "", "", "", "", "", "",
     "\t", "\n", "", "\f", "\r", "", "", "",
     "", "", "", "", "", "", "", "",
     "", "", "", "", "", "", "", " "}

\* ASCII tab or newline: removed by the URL parser wherever it stands.
TabOrNewline == {"\t", "\n", "\r"}

RECURSIVE StripLeading(_, _)
StripLeading(s, set) ==
    IF s # <<>> /\ Head(s) \in set THEN StripLeading(Tail(s), set) ELSE s

RECURSIVE StripTrailing(_, _)
StripTrailing(s, set) ==
    IF s # <<>> /\ s[Len(s)] \in set
    THEN StripTrailing(SubSeq(s, 1, Len(s) - 1), set)
    ELSE s

\* The parser's input after its first two steps.
CleanInput(input) ==
    LET Kept(ch) == ch \notin TabOrNewline
    IN  SelectSeq(StripTrailing(StripLeading(input, C0ControlOrSpace), C0ControlOrSpace),
                  Kept)

\* s split at every element that lies in seps.
RECURSIVE SplitOn(_, _)
SplitOn(s, seps) ==
    LET at == FirstOf(s, seps)
    IN  IF at > Len(s) THEN <<s>>
        ELSE <<SubSeq(s, 1, at - 1)>> \o SplitOn(SubSeq(s, at + 1, Len(s)), seps)

\* The percent-encoding of the ASCII code points that one of the parser's
\* percent-encode sets holds.
PercentOf ==
    " " :> <<"%", "2", "0">> @@ "\"" :> <<"%", "2", "2">> @@
    "#" :> <<"%", "2", "3">> @@ "'" :> <<"%", "2", "7">> @@
    "<" :> <<"%", "3", "C">> @@ ">" :> <<"%", "3", "E">> @@
    "?" :> <<"%", "3", "F">> @@ "{" :> <<"%", "7", "B">> @@ "}" :> <<"%", "7", "D">> @@
    "" :> <<"%", "0", "1">> @@ "" :> <<"%", "0", "2">> @@
    "" :> <<"%", "0", "3">> @@ "" :> <<"%", "0", "4">> @@
    "" :> <<"%", "0", "5">> @@ "" :> <<"%", "0", "6">> @@
    "" :> <<"%", "0", "7">> @@ "" :> <<"%", "0", "8">> @@
    "\t" :> <<"%", "0", "9">> @@ "\n" :> <<"%", "0", "A">> @@
    "\r" :> <<"%", "0", "D">> @@
    "" :> <<"%", "0", "B">> @@ "\f" :> <<"%", "0", "C">> @@
    "" :> <<"%", "0", "E">> @@ "" :> <<"%", "0", "F">> @@
    "" :> <<"%", "1", "0">> @@ "" :> <<"%", "1", "1">> @@
    "" :> <<"%", "1", "2">> @@ "" :> <<"%", "1", "3">> @@
    "" :> <<"%", "1", "4">> @@ "" :> <<"%", "1", "5">> @@
    "" :> <<"%", "1", "6">> @@ "" :> <<"%", "1", "7">> @@
    "" :> <<"%", "1", "8">> @@ "" :> <<"%", "1", "9">> @@
    "" :> <<"%", "1", "A">> @@ "" :> <<"%", "1", "B">> @@
    "" :> <<"%", "1", "C">> @@ "" :> <<"%", "1", "D">> @@
    "" :> <<"%", "1", "E">> @@ "" :> <<"%", "1", "F">> @@
    "" :> <<"%", "7", "F">>

\* The percent-encode sets of the parser, as far as ASCII goes.  The grave
\* accent, which no string of a module can hold, is left out.
C0ControlSet == (C0ControlOrSpace \ {" "}) \cup {""}

FragmentSet == C0ControlSet \cup {" ", "\"", "<", ">"}

QuerySet == C0ControlSet \cup {" ", "\"", "#", "<", ">"}

SpecialQuerySet == QuerySet \cup {"'"}

PathSet == QuerySet \cup {"?", "{", "}"}

RECURSIVE PercentEncode(_, _)
PercentEncode(s, set) ==
    IF s = <<>> THEN <<>>
    ELSE (IF Head(s) \in set THEN PercentOf[Head(s)] ELSE <<Head(s)>>)
         \o PercentEncode(Tail(s), set)

\* Code points a host must not hold; a domain (the host of a special scheme)
\* must hold none of the second set either.
ForbiddenHostCodePoints ==
    {"\t", "\n", "\r", " ", "#", "/", ":", "<", ">", "?", "@", "[", "\\", "]",
     "^", "|"}

ForbiddenDomainCodePoints == ForbiddenHostCodePoints \cup C0ControlSet \cup {"%"}

HexValue ==
    "0" :> 0 @@ "1" :> 1 @@ "2" :> 2 @@ "3" :> 3 @@ "4" :> 4 @@ "5" :> 5 @@
    "6" :> 6 @@ "7" :> 7 @@ "8" :> 8 @@ "9" :> 9 @@ "a" :> 10 @@ "b" :> 11 @@
    "c" :> 12 @@ "d" :> 13 @@ "e" :> 14 @@ "f" :> 15

\* The value of a digit string, kept as four octets (most significant first)
\* and a flag for a value of 2^32 or more.
RECURSIVE NumberOctets(_, _, _)
NumberOctets(digits, radix, acc) ==
    IF digits = <<>> THEN acc
    ELSE LET v4 == (acc.octets[4] * radix) + HexValue[Head(digits)]
             v3 == (acc.octets[3] * radix) + (v4 \div 256)
             v2 == (acc.octets[2] * radix) + (v3 \div 256)
             v1 == (acc.octets[1] * radix) + (v2 \div 256)
         IN  NumberOctets(Tail(digits), radix,
                          [octets |-> <<v1 % 256, v2 % 256, v3 % 256, v4 % 256>>,
                           over |-> acc.over \/ v1 >= 256])

\* The IPv4 number parser on a lower-cased part: 0x starts a hexadecimal
\* number, another leading 0 an octal one.
ParseIPv4Number(part) ==
    LET hex == Len(part) >= 2 /\ SubSeq(part, 1, 2) = <<"0", "x">>
        octal == ~hex /\ Len(part) >= 2 /\ Head(part) = "0"
        radix == IF hex THEN 16 ELSE IF octal THEN 8 ELSE 10
        digits == IF hex THEN SubSeq(part, 3, Len(part))
                  ELSE IF octal THEN Tail(part)
                  ELSE part
        valid == /\ part # <<>>
                 /\ \A k \in 1..Len(digits) :
                       digits[k] \in DOMAIN HexValue /\ HexValue[digits[k]] < radix
    IN  IF valid
        THEN [ok |-> TRUE,
              number |-> NumberOctets(digits, radix,
                                      [octets |-> <<0, 0, 0, 0>>, over |-> FALSE])]
        ELSE [ok |-> FALSE, number |-> [octets |-> <<0, 0, 0, 0>>, over |-> FALSE]]

\* The parts of a host between its dots, without an empty last part.
HostParts(host) ==
    LET parts == SplitOn(host, {"."})
    IN  IF Len(parts) > 1 /\ parts[Len(parts)] = <<>>
        THEN SubSeq(parts, 1, Len(parts) - 1)
        ELSE parts

\* The ends-in-a-number checker.
EndsInANumber(host) ==
    LET parts == HostParts(host)
        last == parts[Len(parts)]
    IN  \/ last # <<>> /\ \A k \in 1..Len(last) : last[k] \in Digits
        \/ ParseIPv4Number(last).ok

Decimal ==
    [n \in 0..255 |->
        LET d == <<"0", "1", "2", "3", "4", "5", "6", "7", "8", "9">>
        IN  IF n < 10 THEN <<d[n + 1]>>
            ELSE IF n < 100 THEN <<d[(n \div 10) + 1], d[(n % 10) + 1]>>
            ELSE <<d[(n \div 100) + 1], d[((n \div 10) % 10) + 1], d[(n % 10) + 1]>>]

\* The IPv4 parser behind its number parser: every number but the last is
\* one octet, the last fills the octets that are left.
IPv4OfNumbers(numbers) ==
    LET n == Len(numbers)
        IsOctet(number) ==
            ~number.over /\ \A j \in 1..3 : number.octets[j] = 0
    IN  IF /\ n <= 4
           /\ \A k \in 1..n : numbers[k].ok
           /\ \A k \in 1..(n - 1) : IsOctet(numbers[k].number)
           /\ ~numbers[n].number.over
           /\ \A j \in 1..(n - 1) : numbers[n].number.octets[j] = 0
        THEN [ok |-> TRUE,
              address |-> [j \in 1..4 |->
                              IF j < n THEN numbers[j].number.octets[4]
                              ELSE numbers[n].number.octets[j]]]
        ELSE [ok |-> FALSE, address |-> <<0, 0, 0, 0>>]

\* The IPv4 serializer: the address in dotted decimal.
SerializeIPv4(parsed) ==
    IF parsed.ok
    THEN [ok |-> TRUE,
          host |-> Decimal[parsed.address[1]] \o <<".">> \o Decimal[parsed.address[2]]
                   \o <<".">> \o Decimal[parsed.address[3]] \o <<".">>
                   \o Decimal[parsed.address[4]]]
    ELSE [ok |-> FALSE, host |-> <<>>]

\* The numbers of the parts of a host.
IPv4Numbers(parts) == [k \in 1..Len(parts) |-> ParseIPv4Number(parts[k])]

\* The IPv4 parser and serializer.
ParseIPv4(host) == SerializeIPv4(IPv4OfNumbers(IPv4Numbers(HostParts(host))))

\* The host parser for a special scheme: a domain, lower-cased, or an IPv4
\* address.
ParseDomain(text) ==
    LET domain == ToLower(text)
    IN  IF domain = <<>> \/ \E k \in 1..Len(domain) : domain[k] \in ForbiddenDomainCodePoints
        THEN [ok |-> FALSE, host |-> <<>>]
        ELSE IF EndsInANumber(domain) THEN ParseIPv4(domain)
        ELSE [ok |-> TRUE, host |-> domain]

\* The host parser for any other scheme: an opaque host, kept as written.
ParseOpaqueHost(text) ==
    IF \E k \in 1..Len(text) : text[k] \in ForbiddenHostCodePoints
    THEN [ok |-> FALSE, host |-> <<>>]
    ELSE [ok |-> TRUE, host |-> PercentEncode(text, C0ControlSet)]

\* The path state on a path that is not appended as written: the segments
\* between the slashes, a segment "." dropped and a segment ".." taking the
\* segment before it along.  A last segment ".." that finds the path of a
\* non-special URL empty leaves it empty (new URL("foo://a/..").href is
\* "foo://a").
RECURSIVE PathSegments(_, _, _)
PathSegments(pieces, path, special) ==
    IF pieces = <<>> THEN path
    ELSE LET segment == Head(pieces)
             atEnd == Len(pieces) = 1
             shorter == IF path = <<>> THEN path ELSE SubSeq(path, 1, Len(path) - 1)
         IN  PathSegments(Tail(pieces),
                 IF segment = <<".", ".">>
                 THEN IF atEnd /\ (special \/ path # <<>>)
                      THEN Append(shorter, <<>>) ELSE shorter
                 ELSE IF segment = <<".">>
                 THEN IF atEnd THEN Append(path, <<>>) ELSE path
                 ELSE Append(path, PercentEncode(segment, PathSet)),
                 special)

\* The path serializer: a slash before every segment.
RECURSIVE JoinPath(_)
JoinPath(path) ==
    IF path = <<>> THEN <<>> ELSE <<"/">> \o Head(path) \o JoinPath(Tail(path))

\* What the parser notes of a path before it reads it: the kinds of code
\* point the path holds that may need work.
PathSignature(view) ==
    LET Holds(set) == \E k \in 1..Len(view) : view[k] \in set
    IN  (IF Holds(PathSet) THEN {"encoding"} ELSE {})
        \cup (IF Holds({"\\"}) THEN {"backslash"} ELSE {})
        \cup (IF Holds({"."}) THEN {"dot"} ELSE {})
        \cup (IF Holds({"%"}) THEN {"percent"} ELSE {})

\* Position of the first slash of view that a dot follows, 0 if none.
FirstSlashDot(view) ==
    LET Found(i) == view[i] = "/" /\ view[i + 1] = "."
    IN  IF \E i \in 1..(Len(view) - 1) : Found(i)
        THEN CHOOSE i \in 1..(Len(view) - 1) :
                 Found(i) /\ \A j \in 1..(i - 1) : ~Found(j)
        ELSE 0

\* The paths the parser (Ada, in node v20) appends as they are written.
\* Besides the paths with nothing to do, these are the paths that hold dots
\* but nothing to encode, do not start with a dot, and whose first "/." is
\* followed by something other than a dot, a slash or the end: only that
\* first "/." is looked at, so new URL("http://a.de/a/.b/..").href keeps
\* the path /a/.b/.. .
TrivialPath(signature, slashdot, view, special) ==
    \/ IF special THEN signature = {}
       ELSE signature \cap {"encoding", "dot", "percent"} = {}
    \/ /\ signature = {"dot"}
       /\ Head(view) # "."
       /\ \/ slashdot = 0
          \/ /\ slashdot + 2 <= Len(view)
             /\ view[slashdot + 2] \notin {".", "/"}

\* The path state on the text behind the first slash of a path.
ParsePath(view, special) ==
    IF TrivialPath(PathSignature(view), FirstSlashDot(view), view, special)
    THEN <<"/">> \o view
    ELSE JoinPath(PathSegments(SplitOn(view, IF special THEN {"/", "\\"} ELSE {"/"}),
                               <<>>, special))

\* The path, query and fragment of the text behind the authority (or behind
\* the scheme when there is none), as the serializer writes them.  The first
\* slash of a path is its start, not a separator.
ParseTail(text, special, opaque) ==
    LET hash == FirstOf(text, {"#"})
        beforeHash == SubSeq(text, 1, hash - 1)
        mark == FirstOf(beforeHash, {"?"})
        pathText == SubSeq(beforeHash, 1, mark - 1)
        separators == IF special THEN {"/", "\\"} ELSE {"/"}
        started == IF pathText # <<>> /\ Head(pathText) \in separators
                   THEN Tail(pathText) ELSE pathText
        path == IF opaque THEN PercentEncode(pathText, C0ControlSet)
                ELSE IF pathText = <<>> /\ ~special THEN <<>>
                ELSE ParsePath(started, special)
        query == IF mark > Len(beforeHash) THEN <<>>
                 ELSE <<"?">> \o PercentEncode(SubSeq(beforeHash, mark + 1, Len(beforeHash)),
                                               IF special THEN SpecialQuerySet ELSE QuerySet)
        fragment == IF hash > Len(text) THEN <<>>
                    ELSE <<"#">> \o PercentEncode(SubSeq(text, hash + 1, Len(text)),
                                                  FragmentSet)
    IN  path \o query \o fragment

\* new URL(input) without a base, for inputs of ASCII code points from U+0001
\* on that hold no credentials, port, IPv6 address, percent sign, circumflex,
\* grave accent or punycode label (xn--), and no space right before the ? or # that ends
\* an opaque path: ok is FALSE where the constructor throws a TypeError,
\* hasHost is FALSE where the URL's host is null, and path is what the
\* serializer writes behind the host (pathname, search and hash).
ParseURL(input) ==
    LET s == CleanInput(input)
        colon == FirstOf(s, {":"})
        scheme == ToLower(SubSeq(s, 1, colon - 1))
        validScheme ==
            /\ colon <= Len(s)
            /\ colon > 1
            /\ s[1] \in Letters
            /\ \A k \in 1..(colon - 1) : s[k] \in Letters \cup Digits \cup {"+", "-", "."}
        special == scheme \in SpecialSchemes
        rest == SubSeq(s, colon + 1, Len(s))
        hasAuthority == special \/ (Len(rest) >= 2 /\ SubSeq(rest, 1, 2) = <<"/", "/">>)
        authority == IF special THEN SkipSlashes(rest) ELSE SubSeq(rest, 3, Len(rest))
        hostEnd == FirstOf(authority,
                           IF special THEN {"/", "\\", "?", "#"} ELSE {"/", "?", "#"})
        hostText == SubSeq(authority, 1, hostEnd - 1)
        host == IF special THEN ParseDomain(hostText) ELSE ParseOpaqueHost(hostText)
        tail == SubSeq(authority, hostEnd, Len(authority))
        opaque == ~hasAuthority /\ (rest = <<>> \/ Head(rest) # "/")
        failure == [ok |-> FALSE, protocol |-> <<>>, special |-> FALSE,
                    hasHost |-> FALSE, host |-> <<>>, path |-> <<>>]
    IN  IF ~validScheme THEN failure
        ELSE IF hasAuthority
        THEN IF ~host.ok THEN failure
             ELSE [ok |-> TRUE, protocol |-> scheme \o <<":">>, special |-> special,
                   hasHost |-> TRUE, host |-> host.host,
                   path |-> ParseTail(tail, special, FALSE)]
        ELSE [ok |-> TRUE, protocol |-> scheme \o <<":">>, special |-> FALSE,
              hasHost |-> FALSE, host |-> <<>>,
              path |-> ParseTail(rest, FALSE, opaque)]

\* URL.prototype.toString.  A path that starts with two slashes behind a
\* null host is written behind "/.".
SerializeURL(u) ==
    IF u.hasHost THEN u.protocol \o <<"/", "/">> \o u.host \o u.path
    ELSE IF Len(u.path) >= 2 /\ SubSeq(u.path, 1, 2) = <<"/", "/">>
    THEN u.protocol \o <<"/", ".">> \o u.path
    ELSE u.protocol \o u.path

\* isValidUrl accepting every URL that parses, whatever its scheme.
isValidUrlAnyScheme(str) == ParseURL(Chars[str]).ok

\* server.js 27-34
isValidUrl(str) ==
    LET u == ParseURL(Chars[str])
    IN  IF u.ok THEN u.protocol = Chars["http:"] \/ u.protocol = Chars["https:"]
        ELSE FALSE

\* enforceHttps always leaving by its catch branch: the url as it was given.
enforceHttpsAsGiven(url) == url

\* server.js 36-44
enforceHttps(url) ==
    LET u == ParseURL(Chars[url])
    IN  IF u.ok
        THEN Str(SerializeURL(IF u.protocol = Chars["http:"]
                              THEN [u EXCEPT !.protocol = Chars["https:"]]
                              ELSE u))
        ELSE url

(* ----------------------------- normalizer ----------------------------- *)

\* criticalPatterns without the quick-win fragment H32.2.
criticalPatternsWithoutH32 ==
    <<"H25.2", "G18.Fail", "F77", "2_4_4.H77", "3_3_1", "3_3_2", "4_1_1">>

\* server.js 48-57
criticalPatterns ==
    <<"H25.2", "G18.Fail", "F77", "H32.2", "2_4_4.H77", "3_3_1", "3_3_2", "4_1_1">>

\* server.js 58-60
warningPatterns == <<"H67.1", "G149", "G141", "1_4_4", "2_4_1", "2_4_7">>

\* Array.prototype.some(p => key.includes(p)) over a pattern list.
SomeIncluded(patterns, key) ==
    \E n \in 1..Len(patterns) : Includes(Chars[key], Chars[patterns[n]])

\* isPriorityOf with the two tests in the other order.
isPriorityOfWarningFirst(key) ==
    IF SomeIncluded(warningPatterns, key) THEN "warning"
    ELSE IF SomeIncluded(criticalPatterns, key) THEN "critical"
    ELSE "low"

\* server.js 205-208: the priority given to a new group.
isPriorityOf(key) ==
    IF SomeIncluded(criticalPatterns, key) THEN "critical"
    ELSE IF SomeIncluded(warningPatterns, key) THEN "warning"
    ELSE "low"

\* table[key] of an object used as a table; an absent key gives undefined,
\* which is the empty string here (the code only tests the value's truth).
Lookup(table, key) == IF key \in DOMAIN table THEN table[key] ELSE ""

\* server.js 62-193
translations ==
    "WCAG2AA.Principle2.Guideline2_4.2_4_2.H25.2" :>
        [title |-> "Seitentitel fehlt oder unbrauchbar",
         description |-> "Der Seitentitel ist leer, zu allgemein oder nicht aussagekraeftig.",
         fix |-> "Eindeutige, beschreibende Titel fuer alle Seiten hinzufuegen"] @@
    "WCAG2AA.Principle2.Guideline2_4.2_4_4.H77" :>
        [title |-> "Linktexte sind nicht aussagekraeftig",
         description |-> "Links mit Texten wie \"Hier klicken\", \"Mehr\" oder \"Link\" sind nicht aussagekraeftig.",
         fix |-> "\"Hier klicken\" durch beschreibende Texte ersetzen: \"Zur Produktseite\", \"Kontakt aufnehmen\""] @@
    "WCAG2AA.Principle1.Guideline1_4.1_4_3.G18.Fail" :>
        [title |-> "Kontrast zu niedrig",
         description |-> "Text- und Hintergrundfarben haben weniger als 4,5:1 Kontrast.",
         fix |-> "Farben anpassen: Dunkler Text auf hellem Hintergrund oder umgekehrt"] @@
    "WCAG2AA.Principle4.Guideline4_1.4_1_1.F77" :>
        [title |-> "Doppelte IDs gefunden",
         description |-> "Mehrere HTML-Elemente haben die gleiche ID.",
         fix |-> "Jede ID nur einmal pro Seite verwenden - IDs muessen eindeutig sein"] @@
    "WCAG2AA.Principle3.Guideline3_2.3_2_2.H32.2" :>
        [title |-> "Formulare ohne Submit-Button",
         description |-> "Formulare haben keinen Absende-Button.",
         fix |-> "<button type=\"submit\">Absenden</button> zu allen Formularen hinzufuegen"] @@
    "WCAG2AA.Principle3.Guideline3_3.3_3_1.G83" :>
        [title |-> "Fehlermeldungen fehlen",
         description |-> "Formulare zeigen keine klaren Fehlermeldungen.",
         fix |-> "Verstaendliche Fehlermeldungen hinzufuegen: \"Bitte E-Mail-Adresse eingeben\""] @@
    "WCAG2AA.Principle3.Guideline3_3.3_3_2.G131" :>
        [title |-> "Pflichtfelder nicht gekennzeichnet",
         description |-> "Erforderliche Formularfelder sind nicht erkennbar.",
         fix |-> "Pflichtfelder mit * markieren und \"Pflichtfeld\" Label hinzufuegen"] @@
    "WCAG2AA.Principle1.Guideline1_1.1_1_1.H67.1" :>
        [title |-> "Problematische Bild-Attribute",
         description |-> "Bilder mit leerem alt-Text haben trotzdem einen title.",
         fix |-> "Entweder title-Attribut entfernen oder sinnvollen alt-Text hinzufuegen"] @@
    "WCAG2AA.Principle1.Guideline1_1.1_1_1.G94.Image" :>
        [title |-> "Bilder ohne Alt-Text",
         description |-> "Informative Bilder haben keinen Alternativtext.",
         fix |-> "Alt-Text hinzufuegen: <img src=\"logo.jpg\" alt=\"Firmenlogo ReguKit\">"] @@
    "WCAG2AA.Principle2.Guideline2_4.2_4_7.G149" :>
        [title |-> "Fokus nicht sichtbar",
         description |-> "Keyboard-Navigation zeigt nicht welches Element aktiv ist.",
         fix |-> "CSS hinzufuegen: :focus { outline: 2px solid #0066cc; border-radius: 2px; }"] @@
    "WCAG2AA.Principle1.Guideline1_3.1_3_1_A.G141" :>
        [title |-> "Falsche Ueberschriften-Struktur",
         description |-> "Ueberschriften-Hierarchie ist unlogisch.",
         fix |-> "Ueberschriften korrekt verschachteln: H1 -> H2 -> H3 (nicht H1 -> H3)"] @@
    "WCAG2AA.Principle1.Guideline1_4.1_4_4.G142" :>
        [title |-> "Text nicht skalierbar",
         description |-> "Text kann nicht auf 200% vergroessert werden.",
         fix |-> "Relative Einheiten verwenden (em, rem) statt fester Pixel"] @@
    "WCAG2AA.Principle1.Guideline1_3.1_3_1.H42" :>
        [title |-> "Falsche Ueberschriften-Tags",
         description |-> "Text sieht aus wie Ueberschrift, verwendet aber falsche HTML-Tags.",
         fix |-> "Richtige Ueberschriften-Tags verwenden: <h2>...</h2> statt <p><strong>...</strong></p>"] @@
    "WCAG2AA.Principle2.Guideline2_4.2_4_1.G1" :>
        [title |-> "Keine Skip-Links",
         description |-> "Navigation kann nicht uebersprungen werden.",
         fix |-> "Skip-Link hinzufuegen: <a href=\"#main\">Zum Hauptinhalt springen</a>"] @@
    "WCAG2AA.Principle4.Guideline4_1.4_1_2.H91.A.Placeholder" :>
        [title |-> "Links ohne Text",
         description |-> "Links haben keinen erkennbaren Text oder Beschreibung.",
         fix |-> "Linktext hinzufuegen oder aria-label verwenden"] @@
    "WCAG2AA.Principle1.Guideline1_1.1_1_1.H67.2" :>
        [title |-> "Dekorative Bilder falsch markiert",
         description |-> "Schmuckbilder haben unnoetigen title-Text.",
         fix |-> "Nur alt=\"\" fuer Schmuckbilder, kein title-Attribut"] @@
    "WCAG2AA.Principle1.Guideline1_4.1_4_2.F23" :>
        [title |-> "Horizontales Scrollen bei Zoom",
         description |-> "Bei 200% Zoom muss horizontal gescrollt werden.",
         fix |-> "Responsive Design verwenden (flexible Layouts, max-width:100%)"] @@
    "WCAG2AA.Principle1.Guideline1_3.1_3_1.H48" :>
        [title |-> "Listen falsch strukturiert",
         description |-> "Aufzaehlungen verwenden keine korrekten Listen-Tags.",
         fix |-> "Richtige Listen verwenden: <ul><li>...</li></ul>"] @@
    "WCAG2AA.Principle2.Guideline2_4.2_4_6.G130" :>
        [title |-> "Aktuelle Position nicht hervorgehoben",
         description |-> "Nutzer wissen nicht, wo sie sich befinden.",
         fix |-> "Breadcrumbs oder aktive Navigation markieren"] @@
    "WCAG2AA.Principle3.Guideline3_1.3_1_2.H58" :>
        [title |-> "Sprachangaben fehlen",
         description |-> "Fremdsprachige Texte sind nicht markiert.",
         fix |-> "Lang-Attribut hinzufuegen: <span lang=\"en\">Hello World</span>"] @@
    "WCAG2AA.Principle2.Guideline2_4.2_4_1.G1,G123,G124.NoSuchID" :>
        [title |-> "Link verweist auf nicht existierende Anker-ID",
         description |-> "Links zeigen auf Ziele, die nicht vorhanden sind.",
         fix |-> "Anker-Links (#section1) reparieren oder entfernen"] @@
    "WCAG2AA.Principle2.Guideline2_4.2_4_6.G130,G131" :>
        [title |-> "Keine Orientierungshilfe",
         description |-> "Nutzer wissen nicht, wo sie sich befinden.",
         fix |-> "Breadcrumb-Navigation hinzufuegen: Home > Kategorie > Seite"] @@
    "WCAG2AA.Principle3.Guideline3_3.3_3_4.G98,G99,G155,G164,G168.LegalForms" :>
        [title |-> "Bestaetigungsschritte fehlen (rechtlich verbindlich)",
         description |-> "Wichtige Formulare haben keine Bestaetigung.",
         fix |-> "Bestaetigungsseite hinzufuegen: \"Sind Sie sicher? [Ja] [Nein]\""] @@
    "WCAG2AA.Principle1.Guideline1_4.1_4_10.C32,C31,C33,C38,SCR34,G206" :>
        [title |-> "Zoom wird behindert",
         description |-> "Website kann nicht richtig gezoomt werden.",
         fix |-> "Viewport korrekt setzen: <meta name=\"viewport\" content=\"width=device-width, initial-scale=1\">"] @@
    "WCAG2AA.Principle1.Guideline1_1.1_1_1.G73,G74" :>
        [title |-> "Komplexe Bilder ohne ausfuehrliche Beschreibung",
         description |-> "Diagramme/Charts haben nur kurzen alt-Text.",
         fix |-> "Ausfuehrliche Beschreibung daneben oder via aria-describedby"] @@
    "WCAG2AA.Principle1.Guideline1_4.1_4_3.G145.Fail" :>
        [title |-> "Kontrast zu niedrig (grosse Schrift)",
         description |-> "Grosse Schrift hat weniger als 3:1 Kontrast.",
         fix |-> "Kontrast fuer grosse Texte (18pt+) auf mind. 3:1 erhoehen"]

\* translations[key]?.title, ?.description, ?.fix, each "" when there is none.
Curated(key) ==
    IF key \in DOMAIN translations THEN translations[key]
    ELSE [title |-> "", description |-> "", fix |-> ""]

\* The regular expression of server.js 216, \d written as the token "\\d".
GuidelinePattern ==
    Chars["Principle"] \o <<"\\d", ".">> \o Chars["Guideline"] \o
    <<"\\d", "_", "\\d", ".", "\\d", "_", "\\d", "_", "\\d", ".">>

\* The pattern matches the spelled string s from position i on.
MatchesAt(s, i, pattern) ==
    /\ i + Len(pattern) - 1 <= Len(s)
    /\ \A k \in 1..Len(pattern) :
          IF pattern[k] = "\\d" THEN s[i + k - 1] \in Digits
          ELSE s[i + k - 1] = pattern[k]

\* String.prototype.replace(pattern, '') without the g flag: the first match.
RemoveFirst(s, pattern) ==
    LET hits == {i \in 1..Len(s) : MatchesAt(s, i, pattern)}
        at == CHOOSE i \in hits : \A j \in hits : i <= j
    IN  IF hits = {} THEN s
        ELSE SubSeq(s, 1, at - 1) \o SubSeq(s, at + Len(pattern), Len(s))

\* key.replace(/^WCAG2AA\./, '')
StripStandard(s) ==
    IF MatchesAt(s, 1, Chars["WCAG2AA."])
    THEN SubSeq(s, Len(Chars["WCAG2AA."]) + 1, Len(s))
    ELSE s

\* germanText.split('.')[0]
RECURSIVE FirstSentence(_)
FirstSentence(s) ==
    IF s = <<>> \/ Head(s) = "." THEN <<>>
    ELSE <<Head(s)>> \o FirstSentence(Tail(s))

\* germanTextOf with a placeholder of four characters.
germanTextOfShortPlaceholder(key) ==
    IF Lookup(wcagDe, key) # "" THEN Lookup(wcagDe, key)
    ELSE IF Curated(key).description # "" THEN Curated(key).description
    ELSE "Kurz"

\* server.js 210
germanTextOf(key) ==
    IF Lookup(wcagDe, key) # "" THEN Lookup(wcagDe, key)
    ELSE IF Curated(key).description # "" THEN Curated(key).description
    ELSE "Unbekanntes Problem"

\* translationOf taking the first sentence of every description, however
\* short it is.
translationOfAnyLength(key) ==
    LET germanText == germanTextOf(key)
    IN  [title |->
             IF Curated(key).title # "" THEN Curated(key).title
             ELSE Str(FirstSentence(Chars[germanText])),
         description |-> germanText,
         fix |-> IF Curated(key).fix # "" THEN Curated(key).fix
                 ELSE "Siehe WCAG-Richtlinien"]

\* server.js 211-219
translationOf(key) ==
    LET germanText == germanTextOf(key)
    IN  [title |->
             IF Curated(key).title # "" THEN Curated(key).title
             ELSE IF Len(Chars[germanText]) > 10
             THEN Str(FirstSentence(Chars[germanText]))
             ELSE Str(RemoveFirst(StripStandard(Chars[key]), GuidelinePattern)),
         description |-> germanText,
         fix |-> IF Curated(key).fix # "" THEN Curated(key).fix
                 ELSE "Siehe WCAG-Richtlinien"]

\* The code a raw issue is grouped under (server.js 197).
KeyOf(issue) == IF issue.code # "" THEN issue.code ELSE "unknown"

\* The TypeError of reading .add of an undefined messages/selectors property.
AddOfUndefined ==
    [name |-> "TypeError",
     message |-> "Cannot read properties of undefined (reading 'add')"]

\* Set.prototype.add on a set kept in insertion order.
SetAdd(seq, x) ==
    IF \E n \in 1..Len(seq) : seq[n] = x THEN seq ELSE Append(seq, x)

\* Position of the own group stored under key, 0 when there is none.
GroupIndex(groups, key) ==
    IF \E n \in 1..Len(groups) : groups[n].code = key
    THEN CHOOSE n \in 1..Len(groups) : groups[n].code = key
    ELSE 0

\* server.js 199-219: the record stored for the first raw issue of a code.
NewGroup(key, issue) ==
    [code |-> key,
     type |-> issue.type,
     count |-> 0,
     messages |-> <<>>,
     selectors |-> <<>>,
     isPriority |-> isPriorityOf(key),
     translation |-> translationOf(key)]

\* CountIssue adding the message as it came, untrimmed.
CountIssueNoTrim(g, issue) ==
    [g EXCEPT
        !.count = @ + 1,
        !.messages = IF issue.message # "" THEN SetAdd(@, issue.message) ELSE @,
        !.selectors = IF issue.selector # "" THEN SetAdd(@, issue.selector) ELSE @]

\* CountIssue also taking the type of the raw issue it counts.
CountIssueRetyping(g, issue) ==
    [g EXCEPT
        !.type = issue.type,
        !.count = @ + 1,
        !.messages =
            IF issue.message # "" THEN SetAdd(@, Str(Trim(Chars[issue.message]))) ELSE @,
        !.selectors =
            IF issue.selector # "" THEN SetAdd(@, issue.selector) ELSE @]

\* server.js 221-223: one raw issue counted into its group.
CountIssue(g, issue) ==
    [g EXCEPT
        !.count = @ + 1,
        !.messages =
            IF issue.message # "" THEN SetAdd(@, Str(Trim(Chars[issue.message]))) ELSE @,
        !.selectors =
            IF issue.selector # "" THEN SetAdd(@, issue.selector) ELSE @]

\* server.js 221 on an inherited value: count++ stores NaN on it (undefined
\* + 1 and NaN + 1 are both NaN).  grouped["__proto__"] is Object.prototype
\* itself, which the other inherited values inherit from: with count stored
\* there, every one of them reads NaN.
CountOnInherited(inherited, key) ==
    IF key = "__proto__" THEN [k \in DOMAIN inherited |-> "NaN"]
    ELSE [inherited EXCEPT ![key] = "NaN"]

\* server.js 196-224: one turn of the loop.  acc.groups are the own
\* properties of grouped in insertion order; acc.threw is set once a
\* statement of the loop has thrown; acc.inherited is the count property
\* read from the values grouped inherits.
GroupStep(acc, issue) ==
    LET key == KeyOf(issue)
        at == GroupIndex(acc.groups, key)
    IN  IF acc.threw THEN acc
        ELSE IF at = 0 /\ key \in ObjectPrototypeKeys
        THEN \* grouped[key] is the inherited value: no group is stored,
             \* count++ lands on that value, and it has no messages or
             \* selectors set to add to.
             IF issue.message # "" \/ issue.selector # ""
             THEN [acc EXCEPT !.inherited = CountOnInherited(@, key),
                              !.threw = TRUE, !.error = AddOfUndefined]
             ELSE [acc EXCEPT !.inherited = CountOnInherited(@, key)]
        ELSE IF at = 0
        THEN [acc EXCEPT !.groups = Append(@, CountIssue(NewGroup(key, issue), issue))]
        ELSE [acc EXCEPT !.groups[at] = CountIssue(@, issue)]

RECURSIVE GroupIssues(_, _)
\* server.js 195-224: the loop over all raw issues.
GroupIssues(issues, acc) ==
    IF issues = <<>> THEN acc
    ELSE GroupIssues(Tail(issues), GroupStep(acc, Head(issues)))

\* server.js 233: the rank of a priority in the sort.
order == [critical |-> 0, warning |-> 1, low |-> 2]

\* CompareIssues with the two keys swapped: count first, then priority.
CompareIssuesCountFirst(a, b) ==
    LET byCount == b.count - a.count
    IN  IF byCount # 0 THEN byCount ELSE order[a.isPriority] - order[b.isPriority]

\* server.js 232-236: the comparator, negative when a sorts before b.
CompareIssues(a, b) ==
    LET prio == order[a.isPriority] - order[b.isPriority]
    IN  IF prio # 0 THEN prio ELSE b.count - a.count

\* x placed behind every element that does not sort after it.
InsertSorted(sorted, x) ==
    LET later == {n \in 1..Len(sorted) : CompareIssues(sorted[n], x) > 0}
        at == IF later = {} THEN Len(sorted) + 1
              ELSE CHOOSE n \in later : \A m \in later : n <= m
    IN  SubSeq(sorted, 1, at - 1) \o <<x>> \o SubSeq(sorted, at, Len(sorted))

RECURSIVE SortIssues(_, _)
\* Array.prototype.sort with the comparator of server.js 232-236 (stable).
SortIssues(list, sorted) ==
    IF list = <<>> THEN sorted
    ELSE SortIssues(Tail(list), InsertSorted(sorted, Head(list)))

\* Array.prototype.slice(0, n)
Slice(list, n) == SubSeq(list, 1, Min(n, Len(list)))

\* Materialize without the slice(0, 3).
MaterializeAllSelectors(g) ==
    [code |-> g.code,
     type |-> g.type,
     count |-> g.count,
     messages |-> g.messages,
     selectors |-> g.selectors,
     isPriority |-> g.isPriority,
     translation |-> g.translation,
     samples |-> g.selectors]

\* server.js 227-231: the group with its sets turned into arrays.  The
\* spread keeps the selectors set in the record next to samples.
Materialize(g) ==
    [code |-> g.code,
     type |-> g.type,
     count |-> g.count,
     messages |-> g.messages,
     selectors |-> g.selectors,
     isPriority |-> g.isPriority,
     translation |-> g.translation,
     samples |-> Slice(g.selectors, 3)]

\* server.js 195: grouped is a fresh object literal in every call; what the
\* call meets from earlier calls is the count property of the inherited values.
FreshGrouped ==
    [groups |-> <<>>, threw |-> FALSE, error |-> NoValue, inherited |-> inheritedCount]

\* processAndCleanIssues with grouped declared outside the function: the loop
\* of a later call starts from the groups of the call before.
processAndCleanIssuesSharedGrouped(issues) ==
    LET kept == IF normPc = "done" /\ ~processed.threw THEN processed.issues ELSE <<>>
        acc == GroupIssues(issues, [FreshGrouped EXCEPT !.groups = kept])
    IN  IF acc.threw
        THEN [threw |-> TRUE, error |-> acc.error, issues |-> <<>>,
              inherited |-> acc.inherited]
        ELSE [threw |-> FALSE,
              error |-> NoValue,
              inherited |-> acc.inherited,
              issues |-> SortIssues([n \in 1..Len(acc.groups) |-> Materialize(acc.groups[n])], <<>>)]

\* server.js 47-237: either the sorted list is returned or the loop threw;
\* inherited is what the call leaves on the inherited values.
processAndCleanIssues(issues) ==
    LET acc == GroupIssues(issues, FreshGrouped)
    IN  IF acc.threw
        THEN [threw |-> TRUE, error |-> acc.error, issues |-> <<>>,
              inherited |-> acc.inherited]
        ELSE [threw |-> FALSE,
              error |-> NoValue,
              inherited |-> acc.inherited,
              issues |-> SortIssues([n \in 1..Len(acc.groups) |-> Materialize(acc.groups[n])], <<>>)]

\* server.js 221: the count properties a call of processAndCleanIssues leaves
\* on the inherited values.
inheritedCountAfter(issues) == processAndCleanIssues(issues).inherited

\* server.js 287
quickWinCodes == <<"H25.2", "F77", "H32.2">>

\* getQuickWins without the slice(0, 3).
getQuickWinsUncapped(criticalIssues) ==
    LET IsQuickWin(issue) == SomeIncluded(quickWinCodes, issue.code)
        wins == SelectSeq(criticalIssues, IsQuickWin)
    IN  [n \in 1..Len(wins) |->
            IF wins[n].translation.title # "" THEN wins[n].translation.title
            ELSE wins[n].code]

\* server.js 286-292
getQuickWins(criticalIssues) ==
    LET IsQuickWin(issue) == SomeIncluded(quickWinCodes, issue.code)
        wins == SelectSeq(criticalIssues, IsQuickWin)
    IN  Slice([n \in 1..Len(wins) |->
                  IF wins[n].translation.title # "" THEN wins[n].translation.title
                  ELSE wins[n].code],
              3)

\* i.translation?.title || i.code.replace(/^WCAG2AA\./, '')  (server.js 279, 341)
TitleOrCode(issue) ==
    IF issue.translation.title # "" THEN issue.translation.title
    ELSE Str(StripStandard(Chars[issue.code]))

RECURSIVE SumOfCounts(_)
\* The counts of a list of issues added up.
SumOfCounts(list) ==
    IF list = <<>> THEN 0 ELSE Head(list).count + SumOfCounts(Tail(list))

\* generateSummary with total counting raw issues instead of records.
generateSummaryRawTotal(processedIssues) ==
    LET IsCritical(i) == i.isPriority = "critical"
        IsWarning(i) == i.isPriority = "warning"
        criticalIssues == SelectSeq(processedIssues, IsCritical)
        warningIssues == SelectSeq(processedIssues, IsWarning)
        top == Slice(criticalIssues, 3)
    IN  [total |-> SumOfCounts(processedIssues),
         criticalCount |-> Len(criticalIssues),
         warningCount |-> Len(warningIssues),
         topCritical |->
             [n \in 1..Len(top) |->
                 [title |-> TitleOrCode(top[n]),
                  count |-> top[n].count,
                  fix |-> IF top[n].translation.fix # "" THEN top[n].translation.fix
                          ELSE "Siehe WCAG-Richtlinien"]],
         quickWins |-> getQuickWins(criticalIssues)]

\* generateSummary with topCritical taken from the head of the whole list,
\* whatever the priority.
generateSummaryTopOfAll(processedIssues) ==
    LET IsCritical(i) == i.isPriority = "critical"
        IsWarning(i) == i.isPriority = "warning"
        criticalIssues == SelectSeq(processedIssues, IsCritical)
        warningIssues == SelectSeq(processedIssues, IsWarning)
        top == Slice(processedIssues, 3)
    IN  [total |-> Len(processedIssues),
         criticalCount |-> Len(criticalIssues),
         warningCount |-> Len(warningIssues),
         topCritical |->
             [n \in 1..Len(top) |->
                 [title |-> TitleOrCode(top[n]),
                  count |-> top[n].count,
                  fix |-> IF top[n].translation.fix # "" THEN top[n].translation.fix
                          ELSE "Siehe WCAG-Richtlinien"]],
         quickWins |-> getQuickWins(criticalIssues)]

\* server.js 271-285
generateSummary(processedIssues) ==
    LET IsCritical(i) == i.isPriority = "critical"
        IsWarning(i) == i.isPriority = "warning"
        criticalIssues == SelectSeq(processedIssues, IsCritical)
        warningIssues == SelectSeq(processedIssues, IsWarning)
        top == Slice(criticalIssues, 3)
    IN  [total |-> Len(processedIssues),
         criticalCount |-> Len(criticalIssues),
         warningCount |-> Len(warningIssues),
         topCritical |->
             [n \in 1..Len(top) |->
                 [title |-> TitleOrCode(top[n]),
                  count |-> top[n].count,
                  fix |-> IF top[n].translation.fix # "" THEN top[n].translation.fix
                          ELSE "Siehe WCAG-Richtlinien"]],
         quickWins |-> getQuickWins(criticalIssues)]

\* The dictionaries wcag-de.json may hold: none, and two with entries for a
\* code that has a curated translation and for one that has none.
WcagDeDictionaries ==
    {NoDictionary,
     ("WCAG2AA.Principle2.Guideline2_4.2_4_2.H25.2" :>
          "Seitentitel fehlt. Bitte ein title-Element setzen.") @@
     ("WCAG2AA.Principle1.Guideline1_3.1_3_1.H49.B" :> "Kurz"),
     ("WCAG2AA.Principle1.Guideline1_3.1_3_1.H49.B" :>
          "Veraltetes Markup. Bitte ersetzen.")}

\* The raw issues the engine's lists are drawn from.  An absent field is the
\* empty string: the code only tests such fields for truthiness.
RawIssue(code, type, message, selector) ==
    [code |-> code, type |-> type, message |-> message, selector |-> selector]

RawIssuePool ==
    {RawIssue("WCAG2AA.Principle2.Guideline2_4.2_4_2.H25.2", "error", "m1", "s1"),
     RawIssue("WCAG2AA.Principle2.Guideline2_4.2_4_2.H25.2", "error", "m1", "s2"),
     RawIssue("WCAG2AA.Principle2.Guideline2_4.2_4_2.H25.2", "warning", "\f m1\t", "s3"),
     RawIssue("WCAG2AA.Principle2.Guideline2_4.2_4_2.H25.2", "notice", "m2", "s4"),
     RawIssue("WCAG2AA.Principle1.Guideline1_4.1_4_3.G18.Fail", "error", "m1", "s1"),
     RawIssue("WCAG2AA.Principle2.Guideline2_4.2_4_7.G149", "warning", " ", ""),
     RawIssue("WCAG2AA.Principle1.Guideline1_3.1_3_1.H49.B", "notice", "m2", "s2"),
     RawIssue("", "", "", "s1"),
     RawIssue("unknown", "notice", "m1", ""),
     RawIssue("constructor", "error", "", ""),
     RawIssue("constructor", "warning", "m1", "s1")}

\* Raw issues for the summary: four codes that are quick wins (three with a
\* curated translation, one without), two critical codes that are none (one
\* of them also holds a warning pattern), a warning code and a low code.
SummaryIssuePool ==
    {RawIssue("WCAG2AA.Principle2.Guideline2_4.2_4_2.H25.2", "error", "m1", "s1"),
     RawIssue("WCAG2AA.Principle4.Guideline4_1.4_1_1.F77", "error", "m1", "s1"),
     RawIssue("WCAG2AA.Principle3.Guideline3_2.3_2_2.H32.2", "error", "m2", "s2"),
     RawIssue("H25.2", "warning", "m1", "s1"),
     RawIssue("WCAG2AA.Principle1.Guideline1_4.1_4_3.G18.Fail", "error", "m1", "s1"),
     RawIssue("WCAG2AA.Principle4.Guideline4_1.4_1_1.G149", "notice", "m1", "s1"),
     RawIssue("WCAG2AA.Principle2.Guideline2_4.2_4_7.G149", "warning", "m1", "s1"),
     RawIssue("WCAG2AA.Principle1.Guideline1_3.1_3_1.H49.B", "notice", "m2", "s2")}

RawIssueLists == UNION {[1..n -> RawIssuePool] : n \in 0..MaxIssues}

SummaryIssueLists == UNION {[1..n -> SummaryIssuePool] : n \in 0..MaxIssues}

\* Raw issues for the repeated call: codes that get a group and codes that
\* meet an inherited value, with and without message, one of them the code
\* that meets Object.prototype itself.
RepeatedIssuePool ==
    {RawIssue("WCAG2AA.Principle2.Guideline2_4.2_4_2.H25.2", "error", "m1", "s1"),
     RawIssue("WCAG2AA.Principle2.Guideline2_4.2_4_2.H25.2", "warning", "\f m1\t", "s3"),
     RawIssue("WCAG2AA.Principle2.Guideline2_4.2_4_7.G149", "warning", " ", ""),
     RawIssue("", "", "", "s1"),
     RawIssue("constructor", "error", "", ""),
     RawIssue("constructor", "warning", "m1", "s1"),
     RawIssue("__proto__", "notice", "", "")}

RepeatedIssueLists == UNION {[1..n -> RepeatedIssuePool] : n \in 0..MaxIssues}

NormInit ==
    /\ rawIssues \in RawIssueLists
    /\ processed = NoValue
    /\ normPc = "input"
    /\ summary = NoValue
    /\ processedAgain = NoValue
    /\ wcagDe \in WcagDeDictionaries
    /\ inheritedCount = NoInheritedCount
    /\ ScoreIdle
    /\ HandlerIdle
    /\ widget = WidgetLoaded

\* server.js 323-324: processAndCleanIssues on the chosen list, then
\* generateSummary on what it returned.
Normalize ==
    /\ normPc = "input"
    /\ processed' = processAndCleanIssues(rawIssues)
    /\ summary' = IF processed'.threw THEN NoValue
                  ELSE generateSummary(processed'.issues)
    /\ normPc' = "done"
    /\ inheritedCount' = processed'.inherited
    /\ UNCHANGED <<rawIssues, processedAgain, scoreVars, wcagDe, widget, handlerVars>>

\* server.js 323 reached again in the same process: a second call of
\* processAndCleanIssues on the same list.
NormalizeAgain ==
    /\ normPc = "done"
    /\ processedAgain' = processAndCleanIssues(rawIssues)
    /\ normPc' = "again"
    /\ inheritedCount' = processedAgain'.inherited
    /\ UNCHANGED <<rawIssues, processed, summary, scoreVars, wcagDe, widget, handlerVars>>

NormNext == Normalize

SpecNorm == NormInit /\ [][NormNext]_vars

\* The normalizer and the summary on the lists of SummaryIssuePool.
SummaryInit ==
    /\ rawIssues \in SummaryIssueLists
    /\ processed = NoValue
    /\ normPc = "input"
    /\ summary = NoValue
    /\ processedAgain = NoValue
    /\ wcagDe \in WcagDeDictionaries
    /\ inheritedCount = NoInheritedCount
    /\ ScoreIdle
    /\ HandlerIdle
    /\ widget = WidgetLoaded

SpecSummary == SummaryInit /\ [][NormNext]_vars

\* Two calls of the normalizer, one after the other, on one list.
RepeatInit ==
    /\ rawIssues \in RepeatedIssueLists
    /\ processed = NoValue
    /\ normPc = "input"
    /\ summary = NoValue
    /\ processedAgain = NoValue
    /\ wcagDe \in WcagDeDictionaries
    /\ inheritedCount = NoInheritedCount
    /\ ScoreIdle
    /\ HandlerIdle
    /\ widget = WidgetLoaded

RepeatNext == Normalize \/ NormalizeAgain

SpecRepeat == RepeatInit /\ [][RepeatNext]_vars

(* ------------------------------ handler ------------------------------- *)

\* Longest issue list the engine returns to a request of Spec.
MaxEngineIssues == 1

\* What the clock does between the two readings of one response: it stands
\* still or it advances.
ClockAdvances == {0, 1}

\* server.js 299
ValidationResponse ==
    [status |-> 400,
     body |-> [success |-> FALSE,
               error |-> "Bitte eine gueltige URL mit http(s) angeben."]]

RECURSIVE TallyRecognizedOnly(_, _)
\* Tally leaving out the raw issues whose type is none of the three.
TallyRecognizedOnly(issues, acc) ==
    IF issues = <<>> THEN acc
    ELSE TallyRecognizedOnly(Tail(issues),
               IF Head(issues).type = "error" THEN [acc EXCEPT !.errors = @ + 1]
               ELSE IF Head(issues).type = "warning" THEN [acc EXCEPT !.warnings = @ + 1]
               ELSE IF Head(issues).type = "notice" THEN [acc EXCEPT !.notices = @ + 1]
               ELSE acc)

\* server.js 315-320
RECURSIVE Tally(_, _)
Tally(issues, acc) ==
    IF issues = <<>> THEN acc
    ELSE Tally(Tail(issues),
               IF Head(issues).type = "error" THEN [acc EXCEPT !.errors = @ + 1]
               ELSE IF Head(issues).type = "warning" THEN [acc EXCEPT !.warnings = @ + 1]
               ELSE [acc EXCEPT !.notices = @ + 1])

\* server.js 325-344: the body of the success response.  The clock is read
\* twice: t is Date.now() of line 325, stamp is new Date() of line 333.
SuccessBody(url, issues, tally, result, processedIssues, digest, startTime, t, stamp) ==
    [success |-> TRUE,
     url |-> url,
     standard |-> "WCAG 2.1 AA (via pa11y WCAG2AA)",
     counts |-> tally,
     score |-> result.score,
     grade |-> result.grade,
     gradeColor |-> result.gradeColor,
     breakdown |-> result.breakdown,
     assessment |-> result.assessment,
     timestamp |-> stamp,
     analysisTimeMs |-> t - startTime,
     issues |-> processedIssues,
     summary |-> digest,
     meta |-> [totalIssuesFound |-> Len(issues),
               uniqueIssueTypes |-> Len(processedIssues),
               worstOffenders |->
                   [n \in 1..Len(Slice(processedIssues, 5)) |->
                       TitleOrCode(processedIssues[n])]]]

\* FailureResponse with the fixed text of the second variant (server.js 1328).
FailureResponseGeneric(err, startTime, t, stamp) ==
    [status |-> 500,
     body |-> [success |-> FALSE,
               error |-> "Analyse fehlgeschlagen. Die Site blockiert evtl. Bots/CORS oder ist nicht erreichbar.",
               timestamp |-> stamp,
               analysisTimeMs |-> t - startTime]]

\* server.js 345-353: the response of the catch block.  The clock is read
\* twice: t is Date.now() of line 347, stamp is new Date() of line 351.
FailureResponse(err, startTime, t, stamp) ==
    [status |-> 500,
     body |-> [success |-> FALSE,
               error |-> "Analyse fehlgeschlagen: " \o err.name \o " - " \o err.message,
               timestamp |-> stamp,
               analysisTimeMs |-> t - startTime]]

\* OnRequest admitting one audit at a time: a request arriving while another
\* one awaits the engine is turned away.
OnRequestOneAtATime(q, u, t) ==
    IF u = "" \/ ~isValidUrl(u)
    THEN [q EXCEPT !.pc = "done", !.body = u, !.startTime = t,
                   !.responses = Append(@, ValidationResponse)]
    ELSE IF \E o \in Requests : req[o].pc = "awaiting"
    THEN [q EXCEPT !.pc = "done", !.body = u, !.startTime = t,
                   !.responses = Append(@, [status |-> 429,
                                            body |-> [success |-> FALSE,
                                                      error |-> "Too many requests"]])]
    ELSE [q EXCEPT !.pc = "awaiting", !.body = u, !.startTime = t,
                   !.url = enforceHttps(u),
                   !.engineCalls = Append(@, enforceHttps(u))]

\* server.js 296-313: the handler up to its await, for a request whose body
\* carries url u (the empty string when it carries none).
OnRequest(q, u, t) ==
    IF u = "" \/ ~isValidUrl(u)
    THEN [q EXCEPT !.pc = "done", !.body = u, !.startTime = t,
                   !.responses = Append(@, ValidationResponse)]
    ELSE [q EXCEPT !.pc = "awaiting", !.body = u, !.startTime = t,
                   !.url = enforceHttps(u),
                   !.engineCalls = Append(@, enforceHttps(u))]

\* OnEngineError without the catch block: the rejection leaves the handler.
OnEngineErrorUncaught(q, err, t, stamp) ==
    [q EXCEPT !.pc = "done", !.unhandled = TRUE]

\* OnEngineError retrying: the catch block calls the engine once more.
OnEngineErrorRetrying(q, err, t, stamp) ==
    [q EXCEPT !.pc = "awaiting", !.engineCalls = Append(@, q.url)]

\* server.js 345-354: the await rejected, or a statement of the try block threw.
OnEngineError(q, err, t, stamp) ==
    [q EXCEPT !.pc = "done",
              !.responses = Append(@, FailureResponse(err, q.startTime, t, stamp))]

\* server.js 315-344: the await resolved with results.issues = issues.
OnEngineResult(q, issues, t, stamp) ==
    LET tally == Tally(issues, [errors |-> 0, warnings |-> 0, notices |-> 0])
        result == calculateDetailedScore(tally)
        cleaned == processAndCleanIssues(issues)
        digest == generateSummary(cleaned.issues)
    IN  IF cleaned.threw THEN OnEngineError(q, cleaned.error, t, stamp)
        ELSE [q EXCEPT
                 !.pc = "done",
                 !.responses =
                     Append(@, [status |-> 200,
                                body |-> SuccessBody(q.url, issues, tally, result,
                                                     cleaned.issues, digest,
                                                     q.startTime, t, stamp)])]

\* The url property of the request bodies: absent, not a URL, a URL without
\* host, a URL whose host holds a space, a URL of another scheme, an https
\* URL, an http URL in upper case with a backslash and dot segments, and an
\* http URL whose dot segments the parser keeps.
UrlInputs ==
    {"", "example", "http://", "http://a b/", "ftp://a.de/", "https://a.de/",
     "HTTP://A.de\\a/../x", "http://a.de/a/.b/.."}

\* The errors pa11y rejects with.
EngineErrors ==
    {[name |-> "Error", message |-> "net::ERR_NAME_NOT_RESOLVED"],
     [name |-> "TimeoutError", message |-> "Navigation timeout of 90000 ms exceeded"]}

\* The raw issues the engine answers the requests of Spec with.
EnginePool ==
    {RawIssue("WCAG2AA.Principle2.Guideline2_4.2_4_2.H25.2", "error", "m1", "s1"),
     RawIssue("constructor", "warning", "", ""),
     RawIssue("constructor", "", "m1", "s1")}

EngineIssueLists == UNION {[1..n -> EnginePool] : n \in 0..MaxEngineIssues}

\* The dictionaries the server of Spec is started with: none, and one with
\* entries for a curated code and for a code without curated translation.
HandlerDictionaries ==
    {d \in WcagDeDictionaries :
        d = NoDictionary \/ "WCAG2AA.Principle2.Guideline2_4.2_4_2.H25.2" \in DOMAIN d}

Init ==
    /\ req = [r \in Requests |-> IdleRequest]
    /\ now = 0
    /\ wcagDe \in HandlerDictionaries
    /\ inheritedCount = NoInheritedCount
    /\ ScoreIdle
    /\ NormIdle
    /\ widget = WidgetLoaded

\* A request arrives: the handler runs to its first response or to the await.
Receive(r, u) ==
    /\ req[r].pc = "idle"
    /\ req' = [req EXCEPT ![r] = OnRequest(@, u, now)]
    /\ now' = now + 1
    /\ UNCHANGED <<scoreVars, normVars, wcagDe, widget, inheritedCount>>

\* pa11y resolves: the handler runs from the await to its response; the
\* clock may advance between the handler's two readings of it.
EngineResolve(r, issues) ==
    /\ req[r].pc = "awaiting"
    /\ \E lag \in ClockAdvances :
          /\ req' = [req EXCEPT ![r] =
                        OnEngineResult([@ EXCEPT !.engine = [kind |-> "resolved",
                                                             issues |-> issues]],
                                       issues, now, now + lag)]
          /\ now' = Max(now + 1, now + lag)
    /\ inheritedCount' = inheritedCountAfter(issues)
    /\ UNCHANGED <<scoreVars, normVars, wcagDe, widget>>

\* pa11y rejects: the handler runs from the await through the catch block;
\* the clock may advance between the handler's two readings of it.
EngineReject(r, err) ==
    /\ req[r].pc = "awaiting"
    /\ \E lag \in ClockAdvances :
          /\ req' = [req EXCEPT ![r] =
                        OnEngineError([@ EXCEPT !.engine = [kind |-> "rejected",
                                                            error |-> err]],
                                      err, now, now + lag)]
          /\ now' = Max(now + 1, now + lag)
    /\ UNCHANGED <<scoreVars, normVars, wcagDe, widget, inheritedCount>>

Next ==
    \E r \in Requests :
        \/ \E u \in UrlInputs : Receive(r, u)
        \/ \E issues \in EngineIssueLists : EngineResolve(r, issues)
        \/ \E err \in EngineErrors : EngineReject(r, err)

Spec == Init /\ [][Next]_vars

\* The engine call of request r settles.
EngineSettles(r) ==
    \/ \E issues \in EngineIssueLists : EngineResolve(r, issues)
    \/ \E err \in EngineErrors : EngineReject(r, err)

\* Spec with every pending engine call eventually resolving or rejecting
\* (pa11y runs under timeout: 90000, server.js 309).
LiveSpec == Spec /\ \A r \in Requests : WF_vars(EngineSettles(r))

\* The raw issues the engine answers the single request of SpecAudit with:
\* every type the engine reports, a type it does not, a missing type, and a
\* code that meets an inherited value.
AuditIssuePool ==
    {RawIssue("WCAG2AA.Principle2.Guideline2_4.2_4_2.H25.2", "error", "m1", "s1"),
     RawIssue("WCAG2AA.Principle2.Guideline2_4.2_4_2.H25.2", "warning", "\f m1\t", "s3"),
     RawIssue("WCAG2AA.Principle2.Guideline2_4.2_4_7.G149", "notice", "m2", "s2"),
     RawIssue("WCAG2AA.Principle1.Guideline1_4.1_4_3.G18.Fail", "info", "m1", "s1"),
     RawIssue("WCAG2AA.Principle1.Guideline1_3.1_3_1.H49.B", "", "m2", "s2"),
     RawIssue("constructor", "warning", "", "")}

AuditIssueLists == UNION {[1..n -> AuditIssuePool] : n \in 0..MaxIssues}

\* One request with a valid url, answered by the engine with a list of up to
\* MaxIssues raw issues.
AuditNext ==
    \/ \E u \in {"https://a.de/", "HTTP://A.de/x"} : Receive("r1", u)
    \/ \E issues \in AuditIssueLists : EngineResolve("r1", issues)

SpecAudit == Init /\ [][AuditNext]_vars

(* ------------------- handler, rate-limited variant -------------------- *)

\* server.js 1243-1251
validateUrl(input) ==
    LET url == ParseURL(Chars[input])
    IN  IF url.ok THEN url.protocol \in {Chars["http:"], Chars["https:"]}
        ELSE FALSE

\* server.js 1257-1259
VariantValidationResponse ==
    [status |-> 400,
     body |-> [error |-> "Keine URL angegeben oder falsches Format."]]

\* server.js 1287-1295: one raw issue with its German text.  For a code that
\* names a property the dictionary object inherits, wcagDe[issue.code] is the
\* inherited value (a function or Object.prototype, no string), written here
\* as the text <inherited ...>.
TranslatedIssue(issue) ==
    LET german == IF issue.code \in DOMAIN wcagDe THEN wcagDe[issue.code]
                  ELSE IF issue.code \in ObjectPrototypeKeys
                  THEN "<inherited " \o issue.code \o ">"
                  ELSE ""
    IN  [code |-> issue.code,
         type |-> issue.type,
         selector |-> IF issue.selector # "" THEN issue.selector ELSE "null",
         message |-> IF german # "" THEN german ELSE issue.message]

\* server.js 1299-1304
VariantGrade(score) ==
    IF score >= 90 THEN "A"
    ELSE IF score >= 75 THEN "B"
    ELSE IF score >= 50 THEN "C"
    ELSE IF score >= 25 THEN "D"
    ELSE "F"

\* server.js 1254-1261: the variant's handler up to its await.  validateUrl
\* is not called: the only test is that url is a non-empty string.
OnRequestVariant(q, u, t) ==
    IF u = ""
    THEN [q EXCEPT !.pc = "done", !.body = u, !.startTime = t,
                   !.responses = Append(@, VariantValidationResponse)]
    ELSE [q EXCEPT !.pc = "awaiting", !.body = u, !.startTime = t,
                   !.url = u,
                   !.engineCalls = Append(@, u)]

\* server.js 1325-1331: the response of the variant's catch block.
OnEngineErrorVariant(q, err, t) ==
    [q EXCEPT
        !.pc = "done",
        !.responses =
            Append(@, [status |-> 500,
                       body |-> [success |-> FALSE,
                                 error |-> "Analyse fehlgeschlagen. Die Site blockiert evtl. Bots/CORS oder ist nicht erreichbar."]])]

\* server.js 1281-1323: the await resolved with results.issues = issues.
OnEngineResultVariant(q, issues, t) ==
    LET translatedIssues == [n \in 1..Len(issues) |-> TranslatedIssue(issues[n])]
        score == Max(0, 100 - Len(translatedIssues) * 2)
    IN  [q EXCEPT
            !.pc = "done",
            !.responses =
                Append(@, [status |-> 200,
                           body |-> [success |-> TRUE,
                                     url |-> q.url,
                                     standard |-> "WCAG 2.1 AA (pa11y: WCAG2AA)",
                                     score |-> score,
                                     grade |-> VariantGrade(score),
                                     counts |-> Tally(translatedIssues,
                                                      [errors |-> 0, warnings |-> 0,
                                                       notices |-> 0]),
                                     issues |-> translatedIssues]])]

\* A request arrives at the variant.
ReceiveVariant(r, u) ==
    /\ req[r].pc = "idle"
    /\ req' = [req EXCEPT ![r] = OnRequestVariant(@, u, now)]
    /\ now' = now + 1
    /\ UNCHANGED <<scoreVars, normVars, wcagDe, widget, inheritedCount>>

\* pa11y resolves for a request of the variant.
EngineResolveVariant(r, issues) ==
    /\ req[r].pc = "awaiting"
    /\ req' = [req EXCEPT ![r] =
                  OnEngineResultVariant([@ EXCEPT !.engine = [kind |-> "resolved",
                                                              issues |-> issues]],
                                        issues, now)]
    /\ now' = now + 1
    /\ UNCHANGED <<scoreVars, normVars, wcagDe, widget, inheritedCount>>

\* pa11y rejects for a request of the variant.
EngineRejectVariant(r, err) ==
    /\ req[r].pc = "awaiting"
    /\ req' = [req EXCEPT ![r] =
                  OnEngineErrorVariant([@ EXCEPT !.engine = [kind |-> "rejected",
                                                             error |-> err]],
                                       err, now)]
    /\ now' = now + 1
    /\ UNCHANGED <<scoreVars, normVars, wcagDe, widget, inheritedCount>>

VariantNext ==
    \E r \in Requests :
        \/ \E u \in UrlInputs : ReceiveVariant(r, u)
        \/ \E issues \in EngineIssueLists : EngineResolveVariant(r, issues)
        \/ \E err \in EngineErrors : EngineRejectVariant(r, err)

SpecVariant == Init /\ [][VariantNext]_vars

(* ------------------------ widget (embed.js) --------------------------- *)

\* Percentages of the progress bar are kept exactly, as multiples of
\* 1/PctUnit: every tick divides by 30 once.
PctUnit == 30 ^ MaxTicks

\* embed.js 74-79: the bar shows pct, clamped to 0..100.
updateProgress(w, pct) ==
    [w EXCEPT !.progress = Max(0, Min(100 * PctUnit, pct))]

\* embed.js 92-94
stopProgressLoop(w) == [w EXCEPT !.progressTimer = FALSE]

\* embed.js 81-90: the interval is set, its pct starts at 0.
startProgressLoop(w) ==
    [stopProgressLoop(w) EXCEPT !.progressTimer = TRUE, !.pct = 0, !.ticks = 0]

\* embed.js 84-88: one run of the interval's callback.
IntervalCallback(w) ==
    LET step == Max(PctUnit \div 2, 4 * PctUnit - (w.pct \div 30))
        pct == Min(90 * PctUnit, w.pct + step)
    IN  updateProgress([w EXCEPT !.pct = pct, !.ticks = @ + 1], pct)

\* embed.js 96-105
showLoading(w) ==
    startProgressLoop(
        updateProgress([w EXCEPT !.display = "flex", !.overflow = "hidden"], 0))

\* embed.js 112-116: the callback of the 350 ms timeout.
HideTimeoutCallback(w) ==
    updateProgress([w EXCEPT !.display = "none", !.overflow = "",
                             !.hideTimeouts = @ - 1], 0)

\* embed.js 107-122
hideLoading(w, complete) ==
    IF complete
    THEN [updateProgress(stopProgressLoop(w), 100 * PctUnit) EXCEPT
             !.hideTimeouts = @ + 1]
    ELSE updateProgress([stopProgressLoop(w) EXCEPT !.display = "none",
                                                    !.overflow = ""], 0)

\* embed.js 159-165: the click handler up to its await, value being the text
\* of the input field.
OnClick(w, value) ==
    IF Str(Trim(Chars[value])) = ""
    THEN [w EXCEPT !.clicks = @ + 1, !.status = "Bitte eine gueltige URL eingeben."]
    ELSE [showLoading([w EXCEPT !.clicks = @ + 1, !.results = "", !.status = ""])
             EXCEPT !.disabled = TRUE, !.awaiting = @ + 1]

\* embed.js 166-168, 172-174: runAudit resolved, the report is rendered.
OnAuditData(w) ==
    [hideLoading([w EXCEPT !.awaiting = @ - 1, !.results = "report"], TRUE)
        EXCEPT !.disabled = FALSE]

\* embed.js 169-174: runAudit rejected with an error of the given message.
OnAuditError(w, message) ==
    [hideLoading([w EXCEPT !.awaiting = @ - 1,
                           !.status = "Fehler: " \o message,
                           !.statusColor = "#dc2626"], FALSE)
        EXCEPT !.disabled = FALSE]

\* What the input field holds at a click: nothing, a blank, a URL.
InputValues == {"", " ", "https://a.de/"}

\* embed.js 141: the messages runAudit rejects with, and fetch's own.
AuditErrors == {"HTTP 400", "HTTP 500", "Failed to fetch"}

WidgetInit ==
    /\ widget = WidgetLoaded
    /\ wcagDe = NoDictionary
    /\ inheritedCount = NoInheritedCount
    /\ ScoreIdle
    /\ NormIdle
    /\ HandlerIdle

\* The button is clicked; a disabled button takes no click.
Click(value) ==
    /\ ~widget.disabled
    /\ widget.clicks < MaxClicks
    /\ widget' = OnClick(widget, value)
    /\ UNCHANGED <<scoreVars, normVars, wcagDe, inheritedCount, handlerVars>>

\* The audit in flight comes back with a report.
AuditResolves ==
    /\ widget.awaiting > 0
    /\ widget' = OnAuditData(widget)
    /\ UNCHANGED <<scoreVars, normVars, wcagDe, inheritedCount, handlerVars>>

\* The audit in flight fails.
AuditRejects(message) ==
    /\ widget.awaiting > 0
    /\ widget' = OnAuditError(widget, message)
    /\ UNCHANGED <<scoreVars, normVars, wcagDe, inheritedCount, handlerVars>>

\* A 350 ms timeout set by hideLoading({complete:true}) fires.
HideTimeoutFires ==
    /\ widget.hideTimeouts > 0
    /\ widget' = HideTimeoutCallback(widget)
    /\ UNCHANGED <<scoreVars, normVars, wcagDe, inheritedCount, handlerVars>>

\* The 180 ms interval of the progress loop fires.
ProgressTick ==
    /\ widget.progressTimer
    /\ widget.ticks < MaxTicks
    /\ widget' = IntervalCallback(widget)
    /\ UNCHANGED <<scoreVars, normVars, wcagDe, inheritedCount, handlerVars>>

WidgetNext ==
    \/ \E value \in InputValues : Click(value)
    \/ AuditResolves
    \/ \E message \in AuditErrors : AuditRejects(message)
    \/ HideTimeoutFires
    \/ ProgressTick

SpecWidget == WidgetInit /\ [][WidgetNext]_vars

(* ====================== properties: the handler ======================= *)

\* The url values that are missing or empty (""), do not parse ("example",
\* "http://", "http://a b/"), or parse with a scheme other than http/https
\* ("ftp://a.de/").
InvalidUrlInputs == {"", "example", "http://", "http://a b/", "ftp://a.de/"}

\* C1: a request whose url is missing, empty, unparseable or of a scheme
\* other than http/https is answered with the client-error failure response,
\* the engine is invoked zero times for it, and nothing else changes.
C1_InvalidUrlRejected ==
    /\ [][\A r \in Requests :
            (req[r].pc = "idle" /\ req'[r].pc # "idle" /\ req'[r].body \in InvalidUrlInputs) =>
                /\ req'[r] = [IdleRequest EXCEPT !.pc = "done",
                                                 !.body = req'[r].body,
                                                 !.startTime = now,
                                                 !.responses = <<ValidationResponse>>]
                /\ ValidationResponse.status \in 400..499
                /\ ~ValidationResponse.body.success
                /\ \A o \in Requests \ {r} : req'[o] = req[o]
                /\ UNCHANGED <<scoreVars, normVars, wcagDe>>]_vars
    /\ [](\A r \in Requests :
            (req[r].pc # "idle" /\ req[r].body \in InvalidUrlInputs) =>
                req[r].engineCalls = <<>> /\ req[r].engine = NoValue)

\* A request with an ftp URL was rejected while another audit was in flight.
C1_Witness ==
    /\ req["r1"].pc = "done"
    /\ req["r1"].body = "ftp://a.de/"
    /\ req["r1"].responses = <<ValidationResponse>>
    /\ req["r1"].engineCalls = <<>>
    /\ req["r2"].pc = "awaiting"

SuccessFields ==
    {"success", "url", "standard", "counts", "score", "grade", "gradeColor",
     "breakdown", "assessment", "timestamp", "analysisTimeMs", "issues",
     "summary", "meta"}

FailureFields == {"success", "error", "timestamp", "analysisTimeMs"}

\* C2: when the engine invocation rejects, the response is the failure object
\* {success: false, error, timestamp, analysisTimeMs} whose error text carries
\* the error's name and message and which has no issues, counts, score,
\* summary or meta; a success response holds the complete normalized report;
\* no response mixes the two.
C2_FailureOrCompleteReport ==
    \A r \in Requests :
        LET q == req[r]
        IN  /\ \A k \in 1..Len(q.responses) :
                  LET resp == q.responses[k]
                      b == resp.body
                  IN  /\ b.success <=> resp.status = 200
                      /\ b.success =>
                            /\ DOMAIN b = SuccessFields
                            /\ q.engine.kind = "resolved"
                            /\ ~processAndCleanIssues(q.engine.issues).threw
                            /\ b.issues = processAndCleanIssues(q.engine.issues).issues
                            /\ b.summary = generateSummary(b.issues)
                            /\ b.counts.errors + b.counts.warnings + b.counts.notices
                                   = Len(q.engine.issues)
                            /\ b.meta.totalIssuesFound = Len(q.engine.issues)
                      /\ resp.status = 500 => DOMAIN b = FailureFields
            /\ (q.pc = "done" /\ q.engine # NoValue /\ q.engine.kind = "rejected") =>
                  /\ Len(q.responses) = 1
                  /\ q.responses[1].status = 500
                  /\ DOMAIN q.responses[1].body = FailureFields
                  /\ ~q.responses[1].body.success
                  /\ q.responses[1].body.error =
                         "Analyse fehlgeschlagen: " \o q.engine.error.name
                             \o " - " \o q.engine.error.message
                  /\ q.responses[1].body.analysisTimeMs >= 0
                  /\ q.startTime + q.responses[1].body.analysisTimeMs
                         <= q.responses[1].body.timestamp

\* One audit failed with the engine's TimeoutError, another one succeeded.
C2_Witness ==
    /\ req["r1"].pc = "done"
    /\ req["r1"].engine # NoValue
    /\ req["r1"].engine.kind = "rejected"
    /\ req["r1"].engine.error.name = "TimeoutError"
    /\ req["r1"].responses[1].body.error =
           "Analyse fehlgeschlagen: TimeoutError - Navigation timeout of 90000 ms exceeded"
    /\ req["r2"].pc = "done"
    /\ req["r2"].responses[1].status = 200
    /\ Len(req["r2"].responses[1].body.issues) = 1

\* C3: every request receives exactly one response (validation rejection,
\* success or structured failure) once its engine call has settled; no path
\* sends two responses or none, and no engine error leaves the handler.
C3_ExactlyOneResponse ==
    /\ [](\A r \in Requests :
            /\ ~req[r].unhandled
            /\ req[r].pc = "done" => Len(req[r].responses) = 1
            /\ req[r].pc # "done" => req[r].responses = <<>>)
    /\ \A r \in Requests : (req[r].pc = "awaiting") ~> (req[r].pc = "done")

\* Both requests were answered once: one rejected at validation, the other
\* after the engine rejected.
C3_Witness ==
    /\ req["r1"].pc = "done"
    /\ req["r1"].responses = <<ValidationResponse>>
    /\ req["r2"].pc = "done"
    /\ req["r2"].engine # NoValue
    /\ req["r2"].engine.kind = "rejected"
    /\ Len(req["r2"].responses) = 1
    /\ req["r2"].responses[1].status = 500

(* ======================= properties: the scorer ======================= *)

\* C4: for all non-negative counts, errorPenalty = min(60, 10 * errors),
\* warningPenalty = min(25, 3 * warnings), noticePenalty = min(15, notices),
\* totalPenalty is their sum and score = max(0, 100 - totalPenalty);
\* errorPenalty is 60 for every errors >= 6, and {3, 2, 10} gives 30/6/10,
\* totalPenalty 46 and score 54.
C4_PenaltyModel ==
    scorePc = "done" =>
        LET b == scoring.breakdown
            e == IF 10 * counts.errors > 60 THEN 60 ELSE 10 * counts.errors
            w == IF 3 * counts.warnings > 25 THEN 25 ELSE 3 * counts.warnings
            n == IF counts.notices > 15 THEN 15 ELSE counts.notices
        IN  /\ b.errorPenalty = e
            /\ b.warningPenalty = w
            /\ b.noticePenalty = n
            /\ b.totalPenalty = e + w + n
            /\ scoring.score = (IF e + w + n > 100 THEN 0 ELSE 100 - (e + w + n))
            /\ (counts.errors >= 6 => b.errorPenalty = 60)
            /\ (counts = [errors |-> 3, warnings |-> 2, notices |-> 10] =>
                    /\ b = [errorPenalty |-> 30, warningPenalty |-> 6,
                            noticePenalty |-> 10, totalPenalty |-> 46]
                    /\ scoring.score = 54)

\* The scorer has answered for errors above the cap, two warnings, ten notices.
C4_Witness ==
    /\ scorePc = "done"
    /\ counts.errors = 7 /\ counts.warnings = 2 /\ counts.notices = 10
    /\ scoring.breakdown.errorPenalty = 60
    /\ scoring.score = 24

\* C5: the score is an integer in [0, 100], the three penalties lie in
\* [0, 60], [0, 25] and [0, 15], and totalPenalty is at most 100.
C5_ScoreAndPenaltyRanges ==
    scorePc = "done" =>
        /\ scoring.score \in 0..100
        /\ scoring.breakdown.errorPenalty \in 0..60
        /\ scoring.breakdown.warningPenalty \in 0..25
        /\ scoring.breakdown.noticePenalty \in 0..15
        /\ scoring.breakdown.totalPenalty \in 0..100

\* Every penalty sits on its cap: the score is 0 and totalPenalty is 100.
C5_Witness ==
    /\ scorePc = "done"
    /\ counts.errors > 6 /\ counts.warnings > 9 /\ counts.notices > 15
    /\ scoring.breakdown.totalPenalty = 100
    /\ scoring.score = 0

\* The grade the thresholds 95/90/80/70/60 give a score of 0..100.
GradeBand(score) ==
    CASE score \in 95..100 -> "A+"
      [] score \in 90..94 -> "A"
      [] score \in 80..89 -> "B"
      [] score \in 70..79 -> "C"
      [] score \in 60..69 -> "D"
      [] score \in 0..59 -> "F"

\* C6: the grade is the first matching threshold, high to low: >= 95 A+,
\* >= 90 A, >= 80 B, >= 70 C, >= 60 D, otherwise F; every score in [0, 100]
\* has exactly that one grade, and all-zero counts give score 100, grade A+.
C6_GradeThresholds ==
    scorePc = "done" =>
        /\ scoring.grade = GradeBand(scoring.score)
        /\ \A s \in 0..100 : GradeOf(s).grade = GradeBand(s)
        /\ (counts = [errors |-> 0, warnings |-> 0, notices |-> 0] =>
                scoring.score = 100 /\ scoring.grade = "A+")

\* The scorer has answered for a score on a threshold: five notices, 95, A+.
C6_Witness ==
    /\ scorePc = "done"
    /\ counts = [errors |-> 0, warnings |-> 0, notices |-> 5]
    /\ scoring.score = 95
    /\ scoring.grade = "A+"

(* ===================== properties: the normalizer ===================== *)

\* The raw issues of the input grouped under key, in input order.
RECURSIVE RawOf(_, _)
RawOf(issues, key) ==
    IF issues = <<>> THEN <<>>
    ELSE IF KeyOf(Head(issues)) = key
         THEN <<Head(issues)>> \o RawOf(Tail(issues), key)
         ELSE RawOf(Tail(issues), key)

\* The normalizer returned a list (it did not throw).
Returned == normPc \in {"done", "again"} /\ ~processed.threw

\* C7: for every raw issue list and every code occurring in it, the count of
\* the NormalizedIssue for that code equals the number of raw issues carrying
\* that code, duplicates of message and selector included.
C7_CountEqualsOccurrences ==
    Returned =>
        \A n \in 1..Len(rawIssues) :
            \E m \in 1..Len(processed.issues) :
                /\ processed.issues[m].code = KeyOf(rawIssues[n])
                /\ processed.issues[m].count = Len(RawOf(rawIssues, KeyOf(rawIssues[n])))

\* C8: the returned list is sorted by (priorityRank, -count) ascending with
\* critical = 0, warning = 1, low = 2: critical before warning before low
\* whatever the counts, and counts non-increasing within one priority.
C8_SortedByPriorityThenCount ==
    Returned =>
        \A i, j \in 1..Len(processed.issues) :
            i < j =>
                LET a == processed.issues[i]
                    b == processed.issues[j]
                    rank == [critical |-> 0, warning |-> 1, low |-> 2]
                IN  \/ rank[a.isPriority] < rank[b.isPriority]
                    \/ rank[a.isPriority] = rank[b.isPriority] /\ a.count >= b.count

\* Priority dominates count: critical(1), warning(1), low(2) in that order.
C8_Witness ==
    /\ Returned
    /\ Len(processed.issues) = 3
    /\ processed.issues[1].isPriority = "critical" /\ processed.issues[1].count = 1
    /\ processed.issues[2].isPriority = "warning" /\ processed.issues[2].count = 1
    /\ processed.issues[3].isPriority = "low" /\ processed.issues[3].count = 2
    /\ KeyOf(rawIssues[1]) = processed.issues[3].code

\* The distinct non-empty elements of a list in order of first occurrence.
RECURSIVE FirstOccurrences(_, _)
FirstOccurrences(list, seen) ==
    IF list = <<>> THEN <<>>
    ELSE IF Head(list) = "" \/ Head(list) \in seen
         THEN FirstOccurrences(Tail(list), seen)
         ELSE <<Head(list)>> \o FirstOccurrences(Tail(list), seen \cup {Head(list)})

\* C9: for every NormalizedIssue, samples has at most 3 entries, holds no
\* selector twice, and is the first 3 distinct non-empty selectors of that
\* code's raw issues in order of first occurrence.
C9_SamplesFirstThreeSelectors ==
    Returned =>
        \A m \in 1..Len(processed.issues) :
            LET g == processed.issues[m]
                raw == RawOf(rawIssues, g.code)
                distinct == FirstOccurrences([k \in 1..Len(raw) |-> raw[k].selector], {})
            IN  /\ Len(g.samples) <= 3
                /\ \A i, j \in 1..Len(g.samples) : i # j => g.samples[i] # g.samples[j]
                /\ g.samples = SubSeq(distinct, 1, IF Len(distinct) < 3 THEN Len(distinct) ELSE 3)

\* A code with four distinct selectors: samples holds the first three.
C9_Witness ==
    /\ Returned
    /\ Len(rawIssues) = 4
    /\ \A k \in 1..4 : rawIssues[k].selector = <<"s1", "s2", "s3", "s4">>[k]
    /\ Len(processed.issues) = 1
    /\ processed.issues[1].samples = <<"s1", "s2", "s3">>

\* C10: for every NormalizedIssue, messages holds each distinct trimmed form
\* of the non-empty raw messages of that code exactly once (messages equal
\* after trimming collapse; empty or missing messages contribute none); two
\* raw issues of one code with message m1 and selectors s1, s2 give one
\* record with count 2, messages [m1] and samples [s1, s2].
C10_MessagesDistinctTrimmed ==
    Returned =>
        \A m \in 1..Len(processed.issues) :
            LET g == processed.issues[m]
                raw == RawOf(rawIssues, g.code)
                given == {raw[k].message : k \in 1..Len(raw)} \ {""}
            IN  /\ \A i, j \in 1..Len(g.messages) : i # j => g.messages[i] # g.messages[j]
                /\ {g.messages[i] : i \in 1..Len(g.messages)} =
                       {Str(Trim(Chars[msg])) : msg \in given}
                /\ (/\ Len(rawIssues) = 2
                    /\ KeyOf(rawIssues[1]) = KeyOf(rawIssues[2])
                    /\ rawIssues[1].message = "m1" /\ rawIssues[2].message = "m1"
                    /\ rawIssues[1].selector = "s1" /\ rawIssues[2].selector = "s2") =>
                       /\ g.count = 2
                       /\ g.messages = <<"m1">>
                       /\ g.samples = <<"s1", "s2">>

\* Messages equal after trimming, three selectors: one record with count 3,
\* messages [m1] and samples [s1, s2, s3].
C10_Witness ==
    /\ Returned
    /\ Len(rawIssues) = 3
    /\ rawIssues[1].message = "m1" /\ rawIssues[2].message = "m1"
    /\ rawIssues[3].message = "\f m1\t"
    /\ Len(processed.issues) = 1
    /\ processed.issues[1].count = 3
    /\ processed.issues[1].messages = <<"m1">>
    /\ processed.issues[1].samples = <<"s1", "s2", "s3">>

(* ================= properties: the normalizer, repeated =============== *)

\* C11: normalizing the same raw issue list twice in one process, with the
\* same translation tables, gives the same outcome both times: the same list
\* in order and content (or the same error); what the first call leaves
\* behind does not change the result of the second.
C11_RepeatedCallSameResult ==
    normPc = "again" =>
        /\ processedAgain.threw = processed.threw
        /\ processedAgain.error = processed.error
        /\ processedAgain.issues = processed.issues

\* The first call left a count on an inherited value and returned two records
\* with several raw issues each; the second call has returned as well.
C11_Witness ==
    /\ normPc = "again"
    /\ ~processed.threw /\ ~processedAgain.threw
    /\ inheritedCount["constructor"] = "NaN"
    /\ Len(processedAgain.issues) = 2
    /\ processedAgain.issues[1].count = 2
    /\ Len(processedAgain.issues[1].messages) = 1

(* ======================= properties: the summary ====================== *)

\* The k-th smallest member of a set of list positions.
KthOf(positions, k) ==
    CHOOSE n \in positions : Cardinality({m \in positions : m < n}) = k - 1

\* Positions of the normalized list whose issue is of critical priority and
\* has a code containing one of the quick-win fragments.
QuickWinPositions ==
    {n \in 1..Len(processed.issues) :
        /\ processed.issues[n].isPriority = "critical"
        /\ \E fragment \in {"H25.2", "F77", "H32.2"} :
              Includes(Chars[processed.issues[n].code], Chars[fragment])}

\* C12: summary.quickWins has at most 3 entries; its entries are, in the
\* normalized list's order, the titles (or codes) of the first issues that
\* are of critical priority and whose code contains H25.2, F77 or H32.2, so
\* no warning- or low-priority issue contributes one.
C12_QuickWinsFromCritical ==
    Returned =>
        /\ Len(summary.quickWins) <= 3
        /\ Len(summary.quickWins) = Min(3, Cardinality(QuickWinPositions))
        /\ \A k \in 1..Len(summary.quickWins) :
              LET issue == processed.issues[KthOf(QuickWinPositions, k)]
              IN  summary.quickWins[k] =
                      IF issue.translation.title # "" THEN issue.translation.title
                      ELSE issue.code

\* Four critical issues with a quick-win code: three quick wins are listed.
C12_Witness ==
    /\ Returned
    /\ Cardinality(QuickWinPositions) = 4
    /\ Len(summary.quickWins) = 3
    /\ summary.quickWins[1] # summary.quickWins[2]

(* ================ properties: the handler and the engine =============== *)

\* C13: the engine is never invoked with a URL of scheme http; a request
\* whose url passes validation with scheme http invokes the engine once, with
\* the same URL under scheme https, and a success response carries that
\* rewritten URL in its url field.
C13_EngineCalledWithHttps ==
    \A r \in Requests :
        LET q == req[r]
            given == ParseURL(Chars[q.body])
        IN  /\ \A n \in 1..Len(q.engineCalls) :
                  ParseURL(Chars[q.engineCalls[n]]).protocol # Chars["http:"]
            /\ (q.pc # "idle" /\ q.body # "" /\ isValidUrl(q.body)
                    /\ given.protocol = Chars["http:"]) =>
                  /\ Len(q.engineCalls) = 1
                  /\ LET sent == ParseURL(Chars[q.engineCalls[1]])
                     IN  /\ sent.ok
                         /\ sent.protocol = Chars["https:"]
                         /\ sent.host = given.host
                         /\ sent.path = given.path
                  /\ \A k \in 1..Len(q.responses) :
                        q.responses[k].status = 200 =>
                            q.responses[k].body.url = q.engineCalls[1]

\* A request for HTTP://A.de\a/../x was answered with a report for
\* https://a.de/x after the engine had been invoked with https://a.de/x, and
\* a request for http://a.de/a/.b/.. with a report for https://a.de/a/.b/..
\* after the engine had been invoked with https://a.de/a/.b/.. .
C13_Witness ==
    \E r, o \in Requests :
        /\ req[r].body = "HTTP://A.de\\a/../x"
        /\ req[r].engineCalls = <<"https://a.de/x">>
        /\ Len(req[r].responses) = 1
        /\ req[r].responses[1].status = 200
        /\ req[r].responses[1].body.url = "https://a.de/x"
        /\ req[o].body = "http://a.de/a/.b/.."
        /\ req[o].engineCalls = <<"https://a.de/a/.b/..">>
        /\ Len(req[o].responses) = 1
        /\ req[o].responses[1].status = 200
        /\ req[o].responses[1].body.url = "https://a.de/a/.b/.."

\* A response without the two fields that tell the time it was sent at.
WithoutTimes(response) ==
    IF response.status = 400 THEN response
    ELSE [response EXCEPT !.body.timestamp = 0, !.body.analysisTimeMs = 0]

\* The responses the handler gives to the request of q when it is the only
\* request and the engine settles as it did for q.
AloneResponses(q) ==
    LET started == OnRequest(IdleRequest, q.body, 0)
        finished ==
            IF started.pc = "done" THEN started
            ELSE IF q.engine.kind = "resolved"
            THEN OnEngineResult(started, q.engine.issues, 1, 1)
            ELSE OnEngineError(started, q.engine.error, 1, 1)
    IN  finished.responses

\* C14: concurrent requests do not interfere.  Whatever the interleaving of
\* the requests at their await points, each finished request has been given
\* the response it would be given alone on the same engine output, and no
\* step of a handler writes state that the handling of another request reads:
\* the dictionary and the count properties of the inherited values, which
\* every call of the normalizer reads, stay as they were at start-up.
C14_NoInterference ==
    /\ [](\A r \in Requests :
             req[r].pc = "done" =>
                 /\ Len(req[r].responses) = Len(AloneResponses(req[r]))
                 /\ \A k \in 1..Len(req[r].responses) :
                       WithoutTimes(req[r].responses[k]) =
                           WithoutTimes(AloneResponses(req[r])[k]))
    /\ [][wcagDe' = wcagDe /\ inheritedCount' = inheritedCount]_vars

(* ================= properties: translation and grouping ================ *)

\* C15: the description of a record's translation is the curated description
\* of its code when there is one, else the entry of the external dictionary
\* (wcag-de) when there is one, else the 'unknown issue' placeholder; for a
\* code with both a curated and a dictionary entry it is the curated one.
C15_DescriptionCuratedFirst ==
    Returned =>
        \A n \in 1..Len(processed.issues) :
            LET key == processed.issues[n].code
                curated == Curated(key).description
                external == Lookup(wcagDe, key)
            IN  processed.issues[n].translation.description =
                    IF curated # "" THEN curated
                    ELSE IF external # "" THEN external
                    ELSE "Unbekanntes Problem"

\* Positions of the normalized list whose issue has the given priority.
PositionsOf(priority) ==
    {n \in 1..Len(processed.issues) : processed.issues[n].isPriority = priority}

\* C16: the summary's total is the number of normalized issues (one per
\* code, not one per raw issue); criticalCount and warningCount are
\* the numbers of normalized issues of critical and of warning priority, so
\* their sum is at most total and the rest are the low-priority issues.
C16_SummaryCounts ==
    Returned =>
        /\ summary.total = Len(processed.issues)
        /\ summary.criticalCount = Cardinality(PositionsOf("critical"))
        /\ summary.warningCount = Cardinality(PositionsOf("warning"))
        /\ summary.criticalCount + summary.warningCount <= summary.total
        /\ summary.total - summary.criticalCount - summary.warningCount =
               Cardinality(PositionsOf("low"))

\* Four raw issues of three codes, one of each priority: total 3, one
\* critical, one warning, one low.
C16_Witness ==
    /\ Returned
    /\ Len(rawIssues) = 4
    /\ summary.total = 3
    /\ summary.criticalCount = 1
    /\ summary.warningCount = 1
    /\ Cardinality(PositionsOf("low")) = 1

\* C17: summary.topCritical has min(3, criticalCount) entries; they are the
\* first entries of the normalized list, all of critical priority, each
\* projected to its title (the code without the standard's prefix when it
\* has no title), count and fix; their counts never increase.
C17_TopCritical ==
    Returned =>
        LET top == summary.topCritical
            k == Min(3, summary.criticalCount)
        IN  /\ Len(top) = k
            /\ \A n \in 1..k :
                  LET issue == processed.issues[n]
                  IN  /\ issue.isPriority = "critical"
                      /\ top[n] =
                             [title |-> IF issue.translation.title # ""
                                        THEN issue.translation.title
                                        ELSE Str(StripStandard(Chars[issue.code])),
                              count |-> issue.count,
                              fix |-> issue.translation.fix]
            /\ \A n \in 1..(k - 1) : top[n].count >= top[n + 1].count

\* Four critical issues: topCritical lists the first three of them.
C17_Witness ==
    /\ Returned
    /\ summary.criticalCount = 4
    /\ Len(summary.topCritical) = 3
    /\ summary.topCritical[3].title = processed.issues[3].translation.title
    /\ processed.issues[4].isPriority = "critical"

\* The code has one of the patterns as a substring.
HasPattern(code, patterns) ==
    \E p \in {patterns[n] : n \in 1..Len(patterns)} : Includes(Chars[code], Chars[p])

\* C18: a record's priority is critical when a critical pattern is a
\* substring of its code, else warning when a warning pattern is one, else
\* low; a code holding both 4_1_1 and G149 is critical.
C18_PriorityClassification ==
    Returned =>
        \A n \in 1..Len(processed.issues) :
            LET g == processed.issues[n]
            IN  /\ HasPattern(g.code, criticalPatterns) => g.isPriority = "critical"
                /\ (~HasPattern(g.code, criticalPatterns)
                        /\ HasPattern(g.code, warningPatterns)) => g.isPriority = "warning"
                /\ (~HasPattern(g.code, criticalPatterns)
                        /\ ~HasPattern(g.code, warningPatterns)) => g.isPriority = "low"
                /\ (Includes(Chars[g.code], Chars["4_1_1"])
                        /\ Includes(Chars[g.code], Chars["G149"])) => g.isPriority = "critical"

\* A list with a code holding 4_1_1 and G149 (critical), a code holding only
\* G149 (warning) and a code holding no pattern (low).
C18_Witness ==
    /\ Returned
    /\ Len(processed.issues) = 3
    /\ processed.issues[1].code = "WCAG2AA.Principle4.Guideline4_1.4_1_1.G149"
    /\ processed.issues[1].isPriority = "critical"
    /\ processed.issues[2].code = "WCAG2AA.Principle2.Guideline2_4.2_4_7.G149"
    /\ processed.issues[2].isPriority = "warning"
    /\ processed.issues[3].isPriority = "low"

\* C19: the returned list has exactly one record for every distinct code of
\* the input, raw issues without a code counting under "unknown", and no
\* record for any other code; an empty input gives an empty list.
C19_OneRecordPerCode ==
    Returned =>
        LET given == {KeyOf(rawIssues[k]) : k \in 1..Len(rawIssues)}
        IN  /\ \A key \in given :
                  Cardinality({n \in 1..Len(processed.issues) :
                                  processed.issues[n].code = key}) = 1
            /\ \A n \in 1..Len(processed.issues) : processed.issues[n].code \in given
            /\ rawIssues = <<>> => processed.issues = <<>>

\* C20: type, isPriority and translation of a record are those set when the
\* first raw issue of its code was processed; raw issues of the same code
\* that come later, whatever their type, leave them as they are.
C20_FixedByFirstIssue ==
    Returned =>
        \A n \in 1..Len(processed.issues) :
            LET g == processed.issues[n]
                first == NewGroup(g.code, RawOf(rawIssues, g.code)[1])
            IN  /\ g.type = RawOf(rawIssues, g.code)[1].type
                /\ g.type = first.type
                /\ g.isPriority = first.isPriority
                /\ g.translation = first.translation

\* A code whose first raw issue is an error and whose later ones are a
\* warning and a notice: the record's type is error.
C20_Witness ==
    /\ Returned
    /\ Len(rawIssues) = 3
    /\ KeyOf(rawIssues[1]) = KeyOf(rawIssues[2])
    /\ KeyOf(rawIssues[2]) = KeyOf(rawIssues[3])
    /\ rawIssues[1].type = "error"
    /\ rawIssues[2].type = "warning"
    /\ rawIssues[3].type = "notice"
    /\ Len(processed.issues) = 1
    /\ processed.issues[1].count = 3
    /\ processed.issues[1].type = "error"

(* ================== properties: title and fix resolution =============== *)

\* C21: a record's title is the curated title of its code when there is one;
\* else, when its description is longer than 10 characters, the description
\* up to its first period; else the code without the standard's prefix and
\* without the Principle/Guideline/criterion segment.  Its fix is the curated
\* fix or else the 'see guidelines' placeholder.  Every record has a title, a
\* description and a fix.
C21_TitleAndFixResolution ==
    Returned =>
        \A n \in 1..Len(processed.issues) :
            LET key == processed.issues[n].code
                t == processed.issues[n].translation
            IN  /\ t.title =
                       IF Curated(key).title # "" THEN Curated(key).title
                       ELSE IF Len(Chars[t.description]) > 10
                       THEN Str(FirstSentence(Chars[t.description]))
                       ELSE Str(RemoveFirst(StripStandard(Chars[key]), GuidelinePattern))
                /\ t.fix = IF Curated(key).fix # "" THEN Curated(key).fix
                           ELSE "Siehe WCAG-Richtlinien"
                /\ t.title # "" /\ t.description # "" /\ t.fix # ""
                /\ (Curated(key).title = "" /\ t.description = "Kurz"
                        /\ key = "WCAG2AA.Principle1.Guideline1_3.1_3_1.H49.B") =>
                       t.title = "H49.B"
                /\ (Curated(key).title = ""
                        /\ t.description = "Veraltetes Markup. Bitte ersetzen.") =>
                       t.title = "Veraltetes Markup"

\* A code without curated entry whose dictionary text has 4 characters got the
\* stripped code as title, next to a code with a curated title.
C21_Witness ==
    /\ Returned
    /\ \E n \in 1..Len(processed.issues) :
          /\ processed.issues[n].translation.description = "Kurz"
          /\ processed.issues[n].translation.title = "H49.B"
          /\ processed.issues[n].translation.fix = "Siehe WCAG-Richtlinien"
    /\ \E n \in 1..Len(processed.issues) :
          processed.issues[n].translation.title = "Seitentitel fehlt oder unbrauchbar"

(* ================= properties: the success response ==================== *)

\* Number of raw issues of a list that satisfy a test on their type.
NumberOfType(issues, Test(_)) ==
    Cardinality({k \in 1..Len(issues) : Test(issues[k].type)})

\* C22: the counts of a success response tally the raw issue list of the
\* engine, every raw issue once: errors the issues of type error, warnings
\* those of type warning, notices all others (any other or a missing type),
\* whether or not issues share a code.
C22_RawTally ==
    \A r \in Requests :
        \A k \in 1..Len(req[r].responses) :
            req[r].responses[k].status = 200 =>
                LET raw == req[r].engine.issues
                    tally == req[r].responses[k].body.counts
                    IsError(type) == type = "error"
                    IsWarning(type) == type = "warning"
                    IsOther(type) == type \notin {"error", "warning"}
                IN  /\ tally.errors = NumberOfType(raw, IsError)
                    /\ tally.warnings = NumberOfType(raw, IsWarning)
                    /\ tally.notices = NumberOfType(raw, IsOther)
                    /\ tally.errors + tally.warnings + tally.notices = Len(raw)

\* Two errors of one code, an issue of type info and one without type: 2
\* errors, no warning, 2 notices, and three records.
C22_Witness ==
    /\ req["r1"].pc = "done"
    /\ Len(req["r1"].responses) = 1
    /\ req["r1"].responses[1].status = 200
    /\ Len(req["r1"].engine.issues) = 4
    /\ req["r1"].engine.issues[1] = req["r1"].engine.issues[2]
    /\ \E k \in 1..4 : req["r1"].engine.issues[k].type = "info"
    /\ \E k \in 1..4 : req["r1"].engine.issues[k].type = ""
    /\ req["r1"].responses[1].body.counts = [errors |-> 2, warnings |-> 0, notices |-> 2]
    /\ Len(req["r1"].responses[1].body.issues) = 3

(* ==================== properties: the assessment ======================= *)

\* The sentence of each of the six bands of the score.
AssessmentBand(score) ==
    CASE score \in 90..100 -> "Hervorragend - Kleine Optimierungen moeglich"
      [] score \in 80..89 -> "Gut - Wenige Verbesserungen noetig"
      [] score \in 70..79 -> "Befriedigend - Mehrere Probleme beheben"
      [] score \in 60..69 -> "Ausreichend - Wichtige Maengel vorhanden"
      [] score \in 40..59 -> "Mangelhaft - Viele kritische Probleme"
      [] score \in 0..39 -> "Kritisch - Sofortiger Handlungsbedarf!"

\* C23: the assessment is a step function of the score alone, with the six
\* bands >= 90, >= 80, >= 70, >= 60, >= 40 and below; every score in
\* [0, 100] has exactly the sentence of its band, and the assessment of a
\* ScoreResult is the one of that result's score.
C23_AssessmentBands ==
    scorePc = "done" =>
        /\ scoring.assessment = AssessmentBand(scoring.score)
        /\ \A s \in 0..100 : getScoreAssessment(s) = AssessmentBand(s)

\* The scorer has answered for a score on the lowest threshold: six errors,
\* score 40, the sentence of the band 40..59.
C23_Witness ==
    /\ scorePc = "done"
    /\ counts = [errors |-> 6, warnings |-> 0, notices |-> 0]
    /\ scoring.score = 40
    /\ scoring.assessment = "Mangelhaft - Viele kritische Probleme"

(* ================= properties: engine invocations ====================== *)

\* C24: the engine is invoked at most once for each request; a request whose
\* engine call failed has been answered with the failure response and its one
\* invocation stays its only one.
C24_NoRetry ==
    \A r \in Requests :
        /\ Len(req[r].engineCalls) <= 1
        /\ (req[r].engine # NoValue /\ req[r].engine.kind = "rejected") =>
              /\ req[r].pc = "done"
              /\ Len(req[r].engineCalls) = 1
              /\ Len(req[r].responses) = 1
              /\ req[r].responses[1].status = 500

\* The engine failed for one request and was invoked once for it; the other
\* request brought its own single invocation.
C24_Witness ==
    \E r, o \in Requests :
        /\ r # o
        /\ req[r].engine # NoValue
        /\ req[r].engine.kind = "rejected"
        /\ req[r].pc = "done"
        /\ Len(req[r].engineCalls) = 1
        /\ req[r].responses[1].status = 500
        /\ Len(req[o].engineCalls) = 1

\* C25: a request that passes validation has its engine invocation started
\* in the step that receives it, whatever the other requests are doing: it
\* is never queued behind, or turned away because of, an audit in flight (its
\* only responses are the report or the engine's failure), so audits await
\* the engine side by side and one started later may be answered first.
C25_AdmittedWithoutWaiting ==
    \A r \in Requests :
        (req[r].pc # "idle" /\ req[r].body # "" /\ isValidUrl(req[r].body)) =>
            /\ Len(req[r].engineCalls) = 1
            /\ \A k \in 1..Len(req[r].responses) :
                  req[r].responses[k].status \in {200, 500}

\* A request that started later has its report while the one that started
\* first still awaits the engine.
C25_Witness ==
    \E r, o \in Requests :
        /\ req[r].pc = "awaiting"
        /\ req[o].pc = "done"
        /\ req[r].startTime < req[o].startTime
        /\ Len(req[r].engineCalls) = 1
        /\ Len(req[o].engineCalls) = 1
        /\ req[o].responses[1].status = 200

(* ============== properties: the rate-limited variant =================== *)

\* C26: in the rate-limited variant a request whose url is a non-empty
\* string that does not parse as an absolute http or https URL is answered
\* with a validation error and the engine is invoked zero times for it.
C26_VariantRejectsMalformedUrl ==
    \A r \in Requests :
        (req[r].pc # "idle" /\ req[r].body # "" /\ ~validateUrl(req[r].body)) =>
            /\ req[r].engineCalls = <<>>
            /\ req[r].pc = "done"
            /\ Len(req[r].responses) = 1
            /\ req[r].responses[1].status = 400

\* C27: in every success response the raw totals agree across all views:
\* counts.errors + counts.warnings + counts.notices, meta.totalIssuesFound,
\* the sum of count over the entries of issues and the number of raw issues
\* the engine returned are one number, and meta.uniqueIssueTypes,
\* summary.total and the length of issues are one number.
C27_TotalsConserved ==
    \A r \in Requests :
        \A k \in 1..Len(req[r].responses) :
            req[r].responses[k].status = 200 =>
                LET body == req[r].responses[k].body
                    raw == req[r].engine.issues
                IN  /\ body.counts.errors + body.counts.warnings + body.counts.notices =
                           Len(raw)
                    /\ body.meta.totalIssuesFound = Len(raw)
                    /\ SumOfCounts(body.issues) = Len(raw)
                    /\ body.meta.uniqueIssueTypes = Len(body.issues)
                    /\ body.summary.total = Len(body.issues)

(* ===================== properties: the widget ========================== *)

\* C28: whenever an audit started by the check button is in flight, the
\* loading overlay is displayed and page scrolling is locked; the timeout set
\* by hideLoading({complete:true}) after a successful audit never hides the
\* overlay of a later audit.
C28_OverlayWhileInFlight ==
    widget.awaiting > 0 =>
        /\ widget.display = "flex"
        /\ widget.overflow = "hidden"

(* ================= properties: quick wins and titles =================== *)

\* C29: each quick-win fragment (H25.2, F77, H32.2) is one of the critical
\* patterns, so every normalized issue whose code holds one is of critical
\* priority, and the quick-win filter gives on the critical issues what it
\* gives on the whole normalized list.
C29_QuickWinsAreCritical ==
    Returned =>
        /\ \A fragment \in {"H25.2", "F77", "H32.2"} :
              \E n \in 1..Len(criticalPatterns) : criticalPatterns[n] = fragment
        /\ \A n \in 1..Len(processed.issues) :
              (\E fragment \in {"H25.2", "F77", "H32.2"} :
                  Includes(Chars[processed.issues[n].code], Chars[fragment])) =>
                  processed.issues[n].isPriority = "critical"
        /\ summary.quickWins = getQuickWins(processed.issues)

\* A list with the H32.2 code, a warning and a low issue: the H32.2 issue is
\* critical and the only quick win.
C29_Witness ==
    /\ Returned
    /\ summary.total = 3
    /\ summary.criticalCount = 1
    /\ summary.warningCount = 1
    /\ processed.issues[1].code = "WCAG2AA.Principle3.Guideline3_2.3_2_2.H32.2"
    /\ Len(summary.quickWins) = 1
    /\ summary.quickWins[1] = processed.issues[1].translation.title

\* The code without the standard's prefix and the guideline segment.
StrippedCode(key) == Str(RemoveFirst(StripStandard(Chars[key]), GuidelinePattern))

\* C30: a record whose code has neither a curated entry nor a dictionary
\* entry has the 'unknown issue' placeholder as description and, the
\* placeholder being longer than 10 characters, as title too, so all such
\* codes share one title; a title that is the stripped code belongs to a code
\* without curated title whose description has at most 10 characters.
C30_UnknownCodesShareTitle ==
    Returned =>
        \A n \in 1..Len(processed.issues) :
            LET key == processed.issues[n].code
                t == processed.issues[n].translation
            IN  /\ (key \notin DOMAIN translations /\ Lookup(wcagDe, key) = "") =>
                       /\ t.description = "Unbekanntes Problem"
                       /\ Len(Chars[t.description]) > 10
                       /\ t.title = "Unbekanntes Problem"
                /\ (Curated(key).title = "" /\ t.title = StrippedCode(key)) =>
                       Len(Chars[t.description]) <= 10

\* Two different codes without curated or dictionary entry in one list, both
\* with the placeholder as title.
C30_Witness ==
    /\ Returned
    /\ \E m, n \in 1..Len(processed.issues) :
          /\ m # n
          /\ processed.issues[m].code \notin DOMAIN translations
          /\ processed.issues[n].code \notin DOMAIN translations
          /\ Lookup(wcagDe, processed.issues[m].code) = ""
          /\ Lookup(wcagDe, processed.issues[n].code) = ""
          /\ processed.issues[m].translation.title = "Unbekanntes Problem"
          /\ processed.issues[n].translation.title = "Unbekanntes Problem"

=============================================================================
